---- MODULE Spec2Model ----
(***************************************************************************)
(* SourceSync / SyncStream: the synchronization control plane of the       *)
(* transmitter host.                                                       *)
(*                                                                         *)
(* The repository holds two copies of the sync controller:                 *)
(*   - src/sync_controller.py      (transmitter host, imported by          *)
(*                                  src/mqtt_server.py), build "host";     *)
(*   - src/src/sync_controller.py  (backend, configurable DeviceState),    *)
(*                                  build "backend".                       *)
(* They differ in DeviceState.update_drift: the backend copy hands the     *)
(* history's sample dicts (not their drift_ms values) to statistics.mean.  *)
(* The variable build says which copy is running.                          *)
(*                                                                         *)
(* Time is counted in ticks of 1/TicksPerSecond seconds.  Python floats    *)
(* are modelled as exact rationals <<numerator, denominator>>.             *)
(***************************************************************************)
EXTENDS Integers, Sequences, FiniteSets, TLC

(***************************************************************************)
(* Rational arithmetic (the model of Python float arithmetic).             *)
(***************************************************************************)
RECURSIVE GCD(_, _)
GCD(a, b) == IF b = 0 THEN a ELSE GCD(b, a % b)

AbsInt(n) == IF n < 0 THEN -n ELSE n

Norm(n, d) ==
    LET g == GCD(AbsInt(n), AbsInt(d))
        s == IF d < 0 THEN -1 ELSE 1
    IN  <<(s * n) \div g, (s * d) \div g>>

Rat(n) == <<n, 1>>
RAdd(a, b) == Norm(a[1] * b[2] + b[1] * a[2], a[2] * b[2])
RSub(a, b) == Norm(a[1] * b[2] - b[1] * a[2], a[2] * b[2])
RMul(a, b) == Norm(a[1] * b[1], a[2] * b[2])
RDiv(a, b) == Norm(a[1] * b[2], a[2] * b[1])
RLt(a, b) == a[1] * b[2] < b[1] * a[2]
RLe(a, b) == a[1] * b[2] <= b[1] * a[2]
RAbs(a) == <<AbsInt(a[1]), a[2]>>
RMax(a, b) == IF RLt(a, b) THEN b ELSE a
RMin(a, b) == IF RLt(b, a) THEN b ELSE a

(***************************************************************************)
(* Program constants.                                                      *)
(***************************************************************************)
TicksPerSecond == 2

DEFAULT_DRIFT_HISTORY_MAXLEN == 50
DEFAULT_RECENT_DRIFTS_WINDOW == 10
DEFAULT_ONLINE_TIMEOUT_SECONDS == 30
DEFAULT_STABILITY_MAX_VARIANCE == 25
DEFAULT_STABILITY_MIN_MEASUREMENTS == 5
DEFAULT_STABILITY_MIN_CONNECTION_QUALITY == <<1, 2>>
SIGNAL_QUALITY_OFFSET == 80
SIGNAL_QUALITY_SCALE == 30
DRIFT_VARIANCE_SCALE == 100
MIN_SAMPLES_FOR_STATISTICS == 3
DEFAULT_MIN_SYNC_INTERVAL_SECONDS == 1
sync_tolerance_ms == 10
adjustment_rate == <<1, 10>>

OnlineTimeoutTicks == DEFAULT_ONLINE_TIMEOUT_SECONDS * TicksPerSecond
MinSyncIntervalTicks == DEFAULT_MIN_SYNC_INTERVAL_SECONDS * TicksPerSecond

(***************************************************************************)
(* JSON payload values.  A drift_ms that is a number is an integer; the    *)
(* value NaNString stands for a payload whose drift_ms is a string         *)
(* ("NaN-string"), which protocol.validate_message would reject.           *)
(***************************************************************************)
NaNString == -1000000
IsNumber(v) == v # NaNString

(***************************************************************************)
(* DeviceState.                                                            *)
(***************************************************************************)
NewDeviceState(base_latency_ms) ==
    [ base_latency_ms    |-> base_latency_ms,
      drift_history      |-> <<>>,
      last_drift_ms      |-> 0,
      last_drift_time    |-> 0,
      current_offset_ms  |-> Rat(0),
      target_offset_ms   |-> Rat(0),
      drift_variance     |-> Rat(0),
      avg_drift_ms       |-> Rat(0),
      connection_quality |-> Rat(1),
      is_online          |-> FALSE,
      last_seen          |-> 0 ]

\* list.append: nothing is evicted.
DequeAppend_unbounded(q, x, maxlen) == Append(q, x)

\* collections.deque(maxlen=...).append
DequeAppend(q, x, maxlen) ==
    IF Len(q) >= maxlen THEN Append(Tail(q), x) ELSE Append(q, x)

\* list(q)[-n:]
LastN(q, n) ==
    IF Len(q) <= n THEN q ELSE SubSeq(q, Len(q) - n + 1, Len(q))

RECURSIVE SumSeq(_)
SumSeq(xs) == IF xs = <<>> THEN 0 ELSE Head(xs) + SumSeq(Tail(xs))

RECURSIVE SumSq(_)
SumSq(xs) == IF xs = <<>> THEN 0 ELSE Head(xs) * Head(xs) + SumSq(Tail(xs))

\* statistics.mean of a list of numbers
Mean(xs) == Norm(SumSeq(xs), Len(xs))

\* statistics.variance (sample variance) of a list of at least two numbers
Variance(xs) ==
    Norm(Len(xs) * SumSq(xs) - SumSeq(xs) * SumSeq(xs), Len(xs) * (Len(xs) - 1))

Clamp01(x) == RMax(Rat(0), RMin(Rat(1), x))

\* update_drift, first half: the sample is appended and the device stamped.
record_drift(dev, drift_ms, signal_strength, t) ==
    [ dev EXCEPT
        !.drift_history = DequeAppend(@, [ drift_ms |-> drift_ms,
                                            timestamp |-> t,
                                            signal_strength |-> signal_strength ],
                                      DEFAULT_DRIFT_HISTORY_MAXLEN),
        !.last_drift_ms = drift_ms,
        !.last_drift_time = t,
        !.is_online = TRUE,
        !.last_seen = t ]

\* The values handed to statistics.mean / statistics.variance can be
\* averaged: the host copy extracts drift_ms from each sample, the backend
\* copy passes the sample dicts themselves.
StatisticsInputOk(b, window) ==
    /\ b = "host"
    /\ \A i \in 1..Len(window) : IsNumber(window[i].drift_ms)

\* recent_drifts of the host copy: the drift_ms values of the window.
recent_drifts(window) == [i \in 1..Len(window) |-> window[i].drift_ms]

\* statistics.variance(recent_drifts) if len(recent_drifts) > 1 else 0.0
variance_or_zero(drifts) == IF Len(drifts) > 1 THEN Variance(drifts) ELSE Rat(0)

\* The statistics and the connection quality stored on the device.
with_statistics(dev, signal_strength, avg, var) ==
    [ dev EXCEPT
        !.avg_drift_ms = avg,
        !.drift_variance = var,
        !.connection_quality =
            RDiv(RAdd(Clamp01(Norm(signal_strength + SIGNAL_QUALITY_OFFSET,
                                   SIGNAL_QUALITY_SCALE)),
                      Clamp01(RSub(Rat(1), RDiv(var, Rat(DRIFT_VARIANCE_SCALE))))),
                 Rat(2)) ]

statistics_of(dev, signal_strength, drifts) ==
    with_statistics(dev, signal_strength, Mean(drifts), variance_or_zero(drifts))

recompute_statistics(dev, signal_strength) ==
    statistics_of(dev, signal_strength,
                  recent_drifts(LastN(dev.drift_history, DEFAULT_RECENT_DRIFTS_WINDOW)))

\* update_drift, second half: statistics, connection quality and the debug
\* line.  exc names the exception the call ends with ("none": it returns).
update_statistics(b, dev, drift_ms, signal_strength) ==
    IF Len(dev.drift_history) >= MIN_SAMPLES_FOR_STATISTICS
    THEN IF StatisticsInputOk(b, LastN(dev.drift_history, DEFAULT_RECENT_DRIFTS_WINDOW))
         THEN [ dev |-> recompute_statistics(dev, signal_strength),
                exc |-> IF IsNumber(drift_ms) THEN "none" ELSE "ValueError" ]
         ELSE [ dev |-> dev, exc |-> "TypeError" ]
    ELSE [ dev |-> dev, exc |-> IF IsNumber(drift_ms) THEN "none" ELSE "ValueError" ]

update_drift(b, dev, drift_ms, signal_strength, t) ==
    update_statistics(b, record_drift(dev, drift_ms, signal_strength, t),
                      drift_ms, signal_strength)

calculate_target_offset(dev, reference_drift) ==
    IF dev.drift_history = <<>>
    THEN [ ok |-> TRUE, val |-> Rat(dev.base_latency_ms) ]
    ELSE IF Len(dev.drift_history) >= MIN_SAMPLES_FOR_STATISTICS
    THEN [ ok |-> TRUE,
           val |-> RAdd(Rat(dev.base_latency_ms),
                        RSub(reference_drift, dev.avg_drift_ms)) ]
    ELSE IF IsNumber(dev.last_drift_ms)
    THEN [ ok |-> TRUE,
           val |-> RAdd(Rat(dev.base_latency_ms),
                        RSub(reference_drift, Rat(dev.last_drift_ms))) ]
    ELSE [ ok |-> FALSE, val |-> Rat(0) ]

is_stable(dev) ==
    /\ Len(dev.drift_history) >= DEFAULT_STABILITY_MIN_MEASUREMENTS
    /\ RLe(dev.drift_variance, Rat(DEFAULT_STABILITY_MAX_VARIANCE))
    /\ RLe(DEFAULT_STABILITY_MIN_CONNECTION_QUALITY, dev.connection_quality)

\* The is_online flag alone, whatever the time.
status_is_online_flag_only(dev, t) == dev.is_online

\* The is_online entry of DeviceState.get_status at time t.
status_is_online(dev, t) ==
    dev.is_online /\ (t - dev.last_seen) < OnlineTimeoutTicks

(***************************************************************************)
(* SyncController.                                                         *)
(*                                                                         *)
(* sync_groups is a Python dict of lists: a sequence of [name, ids]        *)
(* records in insertion order.  The controller operators work on a record  *)
(* c = [devices, sync_events, raised, log, adjustments]: raised says that  *)
(* an exception is propagating; log and adjustments are history: the most  *)
(* recent _sync_group calls, and for each device id the current_offset_ms  *)
(* values its adjustments produced.                                        *)
(***************************************************************************)
GroupIndex(groups, name) ==
    IF \E i \in 1..Len(groups) : groups[i].name = name
    THEN CHOOSE i \in 1..Len(groups) : groups[i].name = name
    ELSE 0

InSeq(x, xs) == \E i \in 1..Len(xs) : xs[i] = x

SeqToSet(xs) == {xs[i] : i \in 1..Len(xs)}

\* sorted(xs) for a sequence of rationals
RECURSIVE SortRat(_)
SortRat(xs) ==
    IF Len(xs) <= 1 THEN xs
    ELSE LET m == CHOOSE i \in 1..Len(xs) : \A j \in 1..Len(xs) : RLe(xs[i], xs[j])
             rest == [k \in 1..(Len(xs) - 1) |-> IF k < m THEN xs[k] ELSE xs[k + 1]]
         IN  <<xs[m]>> \o SortRat(rest)

\* The median of a sorted, non-empty sequence of rationals
MedianSorted(s) ==
    IF Len(s) % 2 = 1 THEN s[(Len(s) + 1) \div 2]
    ELSE RDiv(RAdd(s[Len(s) \div 2], s[Len(s) \div 2 + 1]), Rat(2))

\* The arithmetic mean where the median belongs.
RECURSIVE RatSum(_)
RatSum(xs) == IF Len(xs) = 0 THEN Rat(0) ELSE RAdd(xs[1], RatSum(Tail(xs)))

Median_as_mean(xs) == RDiv(RatSum(xs), Rat(Len(xs)))

\* statistics.median of a non-empty sequence of rationals
Median(xs) == MedianSorted(SortRat(xs))

\* register_device that keeps the DeviceState of a device it already knows.
register_device_keeping_state(devs, configs, groups, device_id, config) ==
    LET withGroup == IF GroupIndex(groups, config.sync_group) = 0
                     THEN Append(groups, [name |-> config.sync_group, ids |-> <<>>])
                     ELSE groups
        g == GroupIndex(withGroup, config.sync_group)
    IN  [ devices |-> [d \in (DOMAIN devs) \cup {device_id} |->
                         IF d \in DOMAIN devs
                         THEN devs[d]
                         ELSE NewDeviceState(config.base_latency_ms)],
          device_configs |-> [d \in (DOMAIN configs) \cup {device_id} |->
                                IF d = device_id THEN config ELSE configs[d]],
          sync_groups |-> IF InSeq(device_id, withGroup[g].ids)
                          THEN withGroup
                          ELSE [withGroup EXCEPT ![g].ids = Append(@, device_id)] ]

register_device(devs, configs, groups, device_id, config) ==
    LET withGroup == IF GroupIndex(groups, config.sync_group) = 0
                     THEN Append(groups, [name |-> config.sync_group, ids |-> <<>>])
                     ELSE groups
        g == GroupIndex(withGroup, config.sync_group)
    IN  [ devices |-> [d \in (DOMAIN devs) \cup {device_id} |->
                         IF d = device_id
                         THEN NewDeviceState(config.base_latency_ms)
                         ELSE devs[d]],
          device_configs |-> [d \in (DOMAIN configs) \cup {device_id} |->
                                IF d = device_id THEN config ELSE configs[d]],
          sync_groups |-> IF InSeq(device_id, withGroup[g].ids)
                          THEN withGroup
                          ELSE [withGroup EXCEPT ![g].ids = Append(@, device_id)] ]

\* The devices of device_ids that reported once and whose last report is
\* older than the online timeout at time t.
timed_out_devices(devs, device_ids, t) ==
    { d \in SeqToSet(device_ids) \cap DOMAIN devs :
        devs[d].is_online /\ (t - devs[d].last_seen) > OnlineTimeoutTicks }

\* The stable_devices list of _sync_group.
stable_devices(devs, device_ids) ==
    SelectSeq(device_ids,
              LAMBDA d : /\ d \in DOMAIN devs
                         /\ devs[d].is_online
                         /\ is_stable(devs[d]))

\* Whether _sync_group adjusts a device whose new target is new_target.
needs_adjustment(dev, new_target) ==
    RLt(Rat(sync_tolerance_ms), RAbs(RSub(new_target, dev.target_offset_ms)))

\* The adjustment of _sync_group applied to one device.
apply_adjustment(dev, new_target) ==
    [ dev EXCEPT
        !.current_offset_ms =
            RAdd(@, RMul(RSub(new_target, dev.current_offset_ms), adjustment_rate)),
        !.target_offset_ms = new_target ]

\* One device of the loop of _sync_group, its new_target computed.
visit_device(r, d, new_target) ==
    IF needs_adjustment(r.devices[d], new_target)
    THEN [r EXCEPT !.targets = Append(@, <<d, new_target>>),
                   !.devices[d] = apply_adjustment(@, new_target),
                   !.adjusted = Append(@, d)]
    ELSE [r EXCEPT !.targets = Append(@, <<d, new_target>>)]

\* The loop of _sync_group over device_ids[i..]; r = [devices, adjusted,
\* targets, raised], where adjusted lists the devices adjusted so far and
\* targets the new_target computed for each device visited.  adjust_next
\* is the loop body once calculate_target_offset has answered with target.
RECURSIVE adjust_from(_, _, _, _)
RECURSIVE adjust_next(_, _, _, _, _)
adjust_from(r, device_ids, i, reference_drift) ==
    IF i > Len(device_ids) THEN r
    ELSE IF device_ids[i] \notin DOMAIN r.devices
    THEN adjust_from(r, device_ids, i + 1, reference_drift)
    ELSE adjust_next(r, device_ids, i, reference_drift,
                     calculate_target_offset(r.devices[device_ids[i]], reference_drift))

adjust_next(r, device_ids, i, reference_drift, target) ==
    IF ~target.ok THEN [r EXCEPT !.raised = TRUE]
    ELSE adjust_from(visit_device(r, device_ids[i], target.val),
                     device_ids, i + 1, reference_drift)

\* How many log entries are kept (the most recent ones).
LogLen == 3

LogAppend(log, e) == LastN(Append(log, e), LogLen)

\* The log entry of a _sync_group call that found fewer than two stable
\* devices.
pass_entry(c, group_name, device_ids, by, t, stable) ==
    [ group |-> group_name, by |-> by, time |-> t,
      stable |-> SeqToSet(stable),
      members |-> SeqToSet(device_ids) \cap DOMAIN c.devices,
      timed_out |-> timed_out_devices(c.devices, device_ids, t),
      synced |-> FALSE, targets |-> <<>>, adjusted |-> <<>>,
      before |-> [d \in {} |-> Rat(0)], after |-> [d \in {} |-> Rat(0)],
      raised |-> FALSE ]

\* The controller after the loop of _sync_group ended with r.
pass_result(c, entry, r) ==
    [ devices |-> r.devices,
      sync_events |-> IF ~r.raised /\ Len(r.adjusted) > 0
                      THEN c.sync_events + 1 ELSE c.sync_events,
      raised |-> r.raised,
      adjustments |->
          [d \in DOMAIN c.adjustments |->
             IF InSeq(d, r.adjusted)
             THEN Append(c.adjustments[d], r.devices[d].current_offset_ms)
             ELSE c.adjustments[d]],
      log |-> LogAppend(c.log,
                [entry EXCEPT
                   !.synced = TRUE,
                   !.targets = r.targets,
                   !.adjusted = r.adjusted,
                   !.before = [d \in entry.members |-> c.devices[d].current_offset_ms],
                   !.after = [d \in entry.members |-> r.devices[d].current_offset_ms],
                   !.raised = r.raised]) ]

\* drifts = [self.devices[device_id].avg_drift_ms for device_id in stable_devices]
stable_drifts(devs, stable) == [i \in 1..Len(stable) |-> devs[stable[i]].avg_drift_ms]

\* reference_drift of _sync_group for a group with two or more stable devices
reference_drift(devs, device_ids) ==
    Median(stable_drifts(devs, stable_devices(devs, device_ids)))

\* _sync_group going on with a single stable device.
sync_stable_from_one(c, device_ids, stable, entry) ==
    IF Len(stable) < 1
    THEN [c EXCEPT !.log = LogAppend(@, entry)]
    ELSE pass_result(c, entry,
                     adjust_from([ devices |-> c.devices, adjusted |-> <<>>,
                                   targets |-> <<>>, raised |-> FALSE ],
                                 device_ids, 1, Median(stable_drifts(c.devices, stable))))

\* _sync_group once its stable_devices list is built.
sync_stable(c, device_ids, stable, entry) ==
    IF Len(stable) < 2
    THEN [c EXCEPT !.log = LogAppend(@, entry)]
    ELSE pass_result(c, entry,
                     adjust_from([ devices |-> c.devices, adjusted |-> <<>>,
                                   targets |-> <<>>, raised |-> FALSE ],
                                 device_ids, 1, Median(stable_drifts(c.devices, stable))))

\* _sync_group with the record of the call.
sync_logged(c, group_name, device_ids, by, t, stable) ==
    sync_stable(c, device_ids, stable,
                pass_entry(c, group_name, device_ids, by, t, stable))

\* _sync_group(group_name, device_ids), called at time t by trigger by
\* ("drift": update_device_drift, "force": force_resync).
sync_group(c, group_name, device_ids, by, t) ==
    sync_logged(c, group_name, device_ids, by, t,
                stable_devices(c.devices, device_ids))

\* for group_name, device_ids in self.sync_groups.items(): _sync_group(...)
RECURSIVE sync_groups_from(_, _, _, _, _)
sync_groups_from(c, groups, i, by, t) ==
    IF i > Len(groups) \/ c.raised THEN c
    ELSE sync_groups_from(sync_group(c, groups[i].name, groups[i].ids, by, t),
                          groups, i + 1, by, t)

\* Whether _check_synchronization runs the passes at time t.
sync_due(t, last_sync) == ~(t - last_sync < MinSyncIntervalTicks)

\* self.last_sync_time = current_time, reached unless a pass raised.
stamp_sync(c, last_sync, t) ==
    [ c |-> c, last_sync_time |-> IF c.raised THEN last_sync ELSE t ]

\* _check_synchronization at time t; the result carries last_sync_time.
check_synchronization(c, groups, last_sync, t) ==
    IF ~sync_due(t, last_sync)
    THEN [ c |-> c, last_sync_time |-> last_sync ]
    ELSE stamp_sync(sync_groups_from(c, groups, 1, "drift", t), last_sync, t)

\* force_resync that syncs every group whatever group_name is.
force_resync_every_group(c, groups, last_sync, group_name, t) ==
    stamp_sync(sync_groups_from(c, groups, 1, "force", t), last_sync, t)

\* force_resync(group_name) at time t; group_name "" is None.
force_resync(c, groups, last_sync, group_name, t) ==
    stamp_sync(IF group_name # "" /\ GroupIndex(groups, group_name) # 0
               THEN sync_group(c, group_name,
                               groups[GroupIndex(groups, group_name)].ids, "force", t)
               ELSE sync_groups_from(c, groups, 1, "force", t),
               last_sync, t)

(***************************************************************************)
(* update_device_drift and the drift handler of the MQTT server, as        *)
(* operators on st = [c, last_sync_time, published]: c is the controller   *)
(* record, published the offset_ms payloads sent per device id.            *)
(***************************************************************************)

\* A controller that registers the id of an unknown reporter on the fly
\* (what the UnknownDevice policy rules out) and records its sample.
enter_update_autoregister(st, device_id, drift_ms, signal_strength, t) ==
    LET devs == [d \in (DOMAIN st.c.devices) \cup {device_id} |->
                   IF d \in DOMAIN st.c.devices THEN st.c.devices[d]
                   ELSE NewDeviceState(0)]
    IN  [ known |-> TRUE,
          st |-> [st EXCEPT
                    !.c.devices = [devs EXCEPT ![device_id] =
                                     record_drift(@, drift_ms, signal_strength, t)]] ]

\* update_device_drift up to the middle of update_drift: the lookup of the
\* device and the appended, stamped sample.
enter_update(st, device_id, drift_ms, signal_strength, t) ==
    IF device_id \notin DOMAIN st.c.devices
    THEN [ known |-> FALSE, st |-> st ]
    ELSE [ known |-> TRUE,
           st |-> [st EXCEPT
                     !.c.devices[device_id] =
                         record_drift(@, drift_ms, signal_strength, t)] ]

\* update_device_drift after _check_synchronization answered with r.
checked_update(st, r) ==
    [ st |-> [st EXCEPT !.c = [r.c EXCEPT !.raised = FALSE],
                        !.last_sync_time = r.last_sync_time],
      outcome |-> IF r.c.raised THEN "TypeError" ELSE "returned" ]

\* update_device_drift after update_drift ended with u.
updated_device(st, groups, device_id, t, u) ==
    IF u.exc # "none"
    THEN [ st |-> st, outcome |-> u.exc ]
    ELSE checked_update(st,
           check_synchronization(
             [st.c EXCEPT !.devices[device_id] = u.dev, !.raised = FALSE],
             groups, st.last_sync_time, t))

\* The rest of update_device_drift for a known device: the statistics, then
\* _check_synchronization.  outcome: "returned", or the exception raised.
finish_update(b, st, groups, device_id, drift_ms, signal_strength, t) ==
    updated_device(st, groups, device_id, t,
                   update_statistics(b, st.c.devices[device_id], drift_ms,
                                     signal_strength))

update_device_drift(b, st, groups, device_id, drift_ms, signal_strength, t) ==
    IF device_id \notin DOMAIN st.c.devices
    THEN [ st |-> st, outcome |-> "unknown" ]
    ELSE finish_update(b, enter_update(st, device_id, drift_ms, signal_strength, t).st,
                       groups, device_id, drift_ms, signal_strength, t)

\* SyncController.get_device_offset(device_id)
get_device_offset(devs, device_id) ==
    IF device_id \in DOMAIN devs THEN devs[device_id].current_offset_ms ELSE Rat(0)

\* MQTTServer.publish_buffer_offset on the per-topic record of payloads
publish_buffer_offset(pub, connected, device_id, offset) ==
    IF connected THEN [pub EXCEPT ![device_id] = Append(@, offset)] ELSE pub

\* _handle_drift_message after update_device_drift ended with u (the server
\* connected).
publish_after(u, device_id) ==
    IF u.outcome \in {"returned", "unknown"}
    THEN [u.st EXCEPT !.published =
             publish_buffer_offset(@, TRUE, device_id,
                                   get_device_offset(u.st.c.devices, device_id))]
    ELSE u.st

\* _handle_drift_message from start to end with no other thread running
\* (the server connected).
handle_drift_message(b, st, groups, device_id, drift_ms, signal_strength, t) ==
    publish_after(update_device_drift(b, st, groups, device_id, drift_ms,
                                      signal_strength, t),
                  device_id)

(***************************************************************************)
(* The state machine: the controller, the MQTT server's drift handler      *)
(* running on handler threads, and the clock.                              *)
(*                                                                         *)
(* mqtt_server.py starts one paho loop thread, which runs the handlers one *)
(* after the other.  The controller itself takes calls from any thread     *)
(* (it guards its state with an RLock; force_resync and register_device    *)
(* are public methods), so the drift path runs here on the threads of      *)
(* Threads, and register_device and force_resync are calls of further      *)
(* threads that hold the lock from entry to return.                        *)
(***************************************************************************)
Builds == {"host", "backend"}
Threads == {"t1", "t2"}
NoThread == "none"
DeviceIds == {"d1", "d2", "d3"}
GroupNames == {"default", "G"}
BaseLatencies == {50}
DriftValues == {10}
WarmDriftValues == {10, 40}
InvalidDrifts == {NaNString}
SignalStrengths == {-50}

StartTime == 1000
MaxTicks == 1
MaxReports == 3
MaxInvalid == 1
MaxRegistrations == 2
MaxResyncs == 2
MaxToggles == 1
MaxEvents == 3
WarmReports == 5
MaxCallerEdits == 1
MaxStatusEvents == 2

TimeSteps == {1, OnlineTimeoutTicks + 1}
\* How long ago the start-up burst was when the run starts.
IdleTicks == {0, MinSyncIntervalTicks}
Configs == [base_latency_ms : BaseLatencies, sync_group : GroupNames]

VARIABLES
    build,            \* which copy of sync_controller.py runs
    now,              \* time.time(), in ticks
    devices,          \* SyncController.devices
    device_configs,   \* SyncController.device_configs
    sync_groups,      \* SyncController.sync_groups
    sync_events,      \* SyncController.sync_events
    last_sync_time,   \* SyncController.last_sync_time
    lock,             \* owner of SyncController.lock
    is_connected,     \* MQTTServer.is_connected
    published,        \* per device id, the offset_ms payloads published on
                      \* syncstream/buffer_offset/<id>
    pc,               \* per handler thread, where _handle_drift_message stands
    msg,              \* per handler thread, the drift message being handled
    offset_ms,        \* per handler thread, the local offset_ms
    outcome,          \* history: how the thread's last update_device_drift ended
    applied_offset,   \* history: the device's current_offset_ms when that call returned
    sync_log,         \* history: the most recent _sync_group calls
    adjustments,      \* history: per device id, the offsets its adjustments produced
    counters          \* history: ticks, reports, invalid reports, registrations, resyncs

controller_vars ==
    << build, now, devices, device_configs, sync_groups, sync_events,
       last_sync_time, lock, is_connected, published, pc, msg, offset_ms,
       outcome, applied_offset, sync_log, adjustments, counters >>

VARIABLES
    status,           \* the value the last get_all_status() call returned, as its
                      \* caller holds it
    caller_edits,     \* history: how often a caller changed a value it was given
    buffer,           \* AudioBuffer.buffer, one frame per slot
    write_index,      \* AudioBuffer.write_index
    samples_written,  \* AudioBuffer.samples_written
    buffer_lock,      \* owner of AudioBuffer.lock
    write_call,       \* the writer thread's position inside AudioBuffer.write
    read_call,        \* per reader thread, its position inside AudioBuffer.read
    returned,         \* history: what the last AudioBuffer.read call returned
    frames_total,     \* history: frames handed to AudioBuffer.write so far
    before_change     \* history: the group's stable drifts and reference drift
                      \* before a device last changed its reported drift

status_vars == << status, caller_edits >>

buffer_vars ==
    << buffer, write_index, samples_written, buffer_lock, write_call, read_call,
       returned, frames_total >>

history_vars == << before_change >>

VARIABLES
    detector,         \* the receiver's DriftDetector
    client,           \* the receiver's MQTTClient, the transmitter's connection
                      \* and what both have published
    mic,              \* the microphone capture: its queue, its capture thread
                      \* and its consumer
    evaluated         \* the last call of a function of the protocol or of the
                      \* HTTP API: its arguments and what it returned

\* The components beside the controller and the AudioBuffer.
component_vars == << detector, client, mic, evaluated >>

core_vars == << controller_vars, status_vars, buffer_vars, history_vars >>
beside_detector == << core_vars, client, mic, evaluated >>
beside_client == << core_vars, detector, mic, evaluated >>
beside_mic == << core_vars, detector, client, evaluated >>
beside_evaluated == << core_vars, detector, client, mic >>

\* The state the controller's operations leave alone.
beside_controller == << status_vars, buffer_vars, history_vars, component_vars >>

\* The state the AudioBuffer's operations leave alone.
beside_buffer == << controller_vars, status_vars, history_vars, component_vars >>

vars == << controller_vars, status_vars, buffer_vars, history_vars, component_vars >>

NoMsg == [device_id |-> "", drift_ms |-> 0, signal_strength |-> 0]

\* The controller and handler state as one record, and back.
State ==
    [ c |-> [ devices |-> devices, sync_events |-> sync_events, raised |-> FALSE,
              log |-> sync_log, adjustments |-> adjustments ],
      last_sync_time |-> last_sync_time,
      published |-> published ]

\* SyncController.__init__ and MQTTServer.__init__
Constructed ==
    [ st |-> [ c |-> [ devices |-> [d \in {} |-> NewDeviceState(0)],
                       sync_events |-> 0, raised |-> FALSE, log |-> <<>>,
                       adjustments |-> [d \in DeviceIds |-> <<>>] ],
               last_sync_time |-> 0,
               published |-> [d \in DeviceIds |-> <<>>] ],
      device_configs |-> [d \in {} |-> [base_latency_ms |-> 0, sync_group |-> "default"]],
      sync_groups |-> << [name |-> "default", ids |-> <<>>] >> ]

\* The record of Constructed after a register_device that answered r.
with_registration(s, r) ==
    [ st |-> [s.st EXCEPT !.c.devices = r.devices],
      device_configs |-> r.device_configs,
      sync_groups |-> r.sync_groups ]

\* register_device on the record of Constructed
registered(s, device_id, config) ==
    with_registration(s, register_device(s.st.c.devices, s.device_configs,
                                         s.sync_groups, device_id, config))

\* n drift reports of one device handled one after the other at time t
RECURSIVE reported(_, _, _, _, _, _, _)
reported(b, st, groups, device_id, drift_ms, n, t) ==
    IF n = 0 THEN st
    ELSE reported(b,
                  handle_drift_message(b, st, groups, device_id, drift_ms,
                                       -50, t),
                  groups, device_id, drift_ms, n - 1, t)

\* WarmReports reports of d1 (drift 10), then of d2 (drift v2), at StartTime.
warm_reports(b, r, v2) ==
    [r EXCEPT !.st =
        reported(b, reported(b, r.st, r.sync_groups, "d1", 10, WarmReports, StartTime),
                 r.sync_groups, "d2", v2, WarmReports, StartTime)]

\* d1, d2 and d3 registered with config cfg.
warm_registered(cfg) ==
    registered(registered(registered(Constructed, "d1", cfg), "d2", cfg), "d3", cfg)

\* After start-up: d1, d2 and d3 registered in group G with one base
\* latency, then WarmReports reports of d1 (drift 10) and of d2 (drift v2)
\* handled within one tick.
WarmedUp(b, base, v2) ==
    warm_reports(b, warm_registered([base_latency_ms |-> base, sync_group |-> "G"]),
                 v2)

InitFrom(s, time) ==
    /\ now = time
    /\ devices = s.st.c.devices
    /\ device_configs = s.device_configs
    /\ sync_groups = s.sync_groups
    /\ sync_events = s.st.c.sync_events
    /\ last_sync_time = s.st.last_sync_time
    /\ lock = NoThread
    /\ is_connected = TRUE
    /\ published = s.st.published
    /\ pc = [t \in Threads |-> "idle"]
    /\ msg = [t \in Threads |-> NoMsg]
    /\ offset_ms = [t \in Threads |-> Rat(0)]
    /\ outcome = [t \in Threads |-> "none"]
    /\ applied_offset = [t \in Threads |-> Rat(0)]
    /\ sync_log = s.st.c.log
    /\ adjustments = s.st.c.adjustments
    /\ counters = [ticks |-> 0, reports |-> 0, invalid |-> 0,
                   registrations |-> 0, resyncs |-> 0, toggles |-> 0]

(***************************************************************************)
(* SyncController.get_all_status: the value handed to the caller.          *)
(***************************************************************************)

\* No get_all_status() call has returned yet.
NoStatus == [taken |-> FALSE]

\* DeviceState.get_status(): a fresh dict of numbers and booleans.
get_status(dev, t) ==
    [ is_online |-> status_is_online(dev, t),
      last_drift_ms |-> dev.last_drift_ms,
      avg_drift_ms |-> dev.avg_drift_ms,
      drift_variance |-> dev.drift_variance,
      current_offset_ms |-> dev.current_offset_ms,
      target_offset_ms |-> dev.target_offset_ms,
      connection_quality |-> dev.connection_quality,
      is_stable |-> is_stable(dev),
      last_seen |-> dev.last_seen,
      drift_measurements |-> Len(dev.drift_history) ]

\* What the 'sync_groups' entry of the returned dict refers to: the
\* controller's own self.sync_groups object.
SameObject == "self.sync_groups"

\* SyncController.get_all_status(): 'devices' is a dict comprehension over
\* get_status(); 'sync_groups' is self.sync_groups itself.
get_all_status(devs, t) ==
    [ taken |-> TRUE,
      at |-> t,
      devices |-> [d \in DOMAIN devs |-> get_status(devs[d], t)],
      sync_groups |-> SameObject ]

(***************************************************************************)
(* AudioBuffer (audio_buffer.py), one channel; a frame is a number.        *)
(***************************************************************************)

sample_rate == 2
buffer_duration == 2

\* int(sample_rate * buffer_duration)
buffer_size == sample_rate * buffer_duration

\* A frame of np.zeros.
Silence == 0

\* Python's int() of a float: truncation towards zero.
IntTrunc(r) ==
    IF r[1] >= 0 THEN r[1] \div r[2] ELSE 0 - ((0 - r[1]) \div r[2])

\* Python's % with a positive modulus.
PyMod(a, m) == ((a % m) + m) % m

MinInt(a, b) == IF a <= b THEN a ELSE b

\* AudioBuffer.__init__ / clear(): the ring, its write position, its count.
EmptyRing ==
    [ buffer |-> [i \in 1..buffer_size |-> Silence],
      write_index |-> 0,
      samples_written |-> 0 ]

\* One turn of the loop with the count wrapped like the write position.
write_frame_wrapped_count(b, frame) ==
    [ buffer |-> [b.buffer EXCEPT ![b.write_index + 1] = frame],
      write_index |-> PyMod(b.write_index + 1, buffer_size),
      samples_written |-> PyMod(b.samples_written + 1, buffer_size) ]

\* One turn of the loop with a write position that never wraps.
write_frame_unwrapped(b, frame) ==
    [ buffer |-> [b.buffer EXCEPT ![PyMod(b.write_index, buffer_size) + 1] = frame],
      write_index |-> b.write_index + 1,
      samples_written |-> b.samples_written + 1 ]

\* One turn of the loop of write(): store the frame, advance, count.
write_frame(b, frame) ==
    [ buffer |-> [b.buffer EXCEPT ![b.write_index + 1] = frame],
      write_index |-> PyMod(b.write_index + 1, buffer_size),
      samples_written |-> b.samples_written + 1 ]

\* write(audio_data) from frame i of the chunk on.
RECURSIVE write_from(_, _, _)
write_from(b, audio_data, i) ==
    IF i > Len(audio_data) THEN b
    ELSE write_from(write_frame(b, audio_data[i]), audio_data, i + 1)

write(b, audio_data) == write_from(b, audio_data, 1)

\* read(): the frame counts asked for.
requested_samples(duration) == IntTrunc(RMul(duration, Rat(sample_rate)))
offset_samples(offset) == IntTrunc(RMul(offset, Rat(sample_rate)))

\* start_pos of a read that ends at the write position whatever the offset.
start_position_at_latest(b, duration, offset) ==
    PyMod(b.write_index - requested_samples(duration), buffer_size)

\* read(): start_pos, computed from the count as asked for.
start_position(b, duration, offset) ==
    PyMod(b.write_index - requested_samples(duration) + offset_samples(offset),
          buffer_size)

available_samples(b) == MinInt(b.samples_written, buffer_size)

\* num_samples set to what is available whatever was asked for.
clamped_samples_always(b, duration) == available_samples(b)

\* read(): num_samples after the "enough data" check.
clamped_samples(b, duration) ==
    IF requested_samples(duration) > available_samples(b)
    THEN available_samples(b)
    ELSE requested_samples(duration)

\* read(): the copy loop.
copy_frames(b, start_pos, num_samples) ==
    [i \in 1..num_samples |-> b.buffer[PyMod(start_pos + i - 1, buffer_size) + 1]]

\* read(): timestamp, from the count as returned.
read_timestamp(b, num_samples, offset) ==
    RDiv(Rat(b.samples_written - num_samples + offset_samples(offset)),
         Rat(sample_rate))

\* read(duration, offset) as one call.
read(b, duration, offset) ==
    [ audio_data |-> copy_frames(b, start_position(b, duration, offset),
                                 clamped_samples(b, duration)),
      timestamp |-> read_timestamp(b, clamped_samples(b, duration), offset) ]

\* get_latest(duration)
get_latest(b, duration) == read(b, duration, Rat(0))

NoWrite == [pc |-> "idle", audio_data |-> << >>, i |-> 0, ring_before |-> EmptyRing]
NoRead == [pc |-> "idle", duration |-> Rat(0), offset |-> Rat(0),
           start_pos |-> 0, num_samples |-> 0]
NoReturn == [by |-> "none"]

Readers == {"r1", "r2"}
Writer == "writer"

\* The AudioBuffer as a record.
Ring ==
    [buffer |-> buffer, write_index |-> write_index,
     samples_written |-> samples_written]

\* An AudioBuffer just constructed, no call in progress.
BufferConstructed ==
    /\ buffer = EmptyRing.buffer
    /\ write_index = EmptyRing.write_index
    /\ samples_written = EmptyRing.samples_written
    /\ buffer_lock = NoThread
    /\ write_call = NoWrite
    /\ read_call = [r \in Readers |-> NoRead]
    /\ returned = NoReturn
    /\ frames_total = 0

NoChange == [changed |-> FALSE]

\* No status taken, an AudioBuffer just constructed, no drift changed.
(***************************************************************************)
(* DriftDetector (receiver)                                                *)
(***************************************************************************)

min_correlation == <<7, 10>>
max_drift_ms == 1000
max_change == 100
max_history == 100

\* DriftDetector.__init__; calls numbers the measure_drift calls and stands
\* for time.time().
DetectorConstructed ==
    [ last_drift_ms |-> Rat(0),
      last_correlation |-> Rat(0),
      last_measurement_time |-> 0,
      measurement_count |-> 0,
      drift_history |-> << >>,
      correlation_history |-> << >>,
      failed_measurements |-> 0,
      calls |-> 0,
      result |-> "none",
      measured |-> << >> ]

\* The jump guard measuring from the latest estimate, accepted or not.
validate_drift_measurement_from_latest(dd, drift_ms, correlation) ==
    IF RLt(correlation, min_correlation) THEN FALSE
    ELSE IF RLt(Rat(max_drift_ms), RAbs(drift_ms)) THEN FALSE
    ELSE IF /\ Len(dd.measured) > 0
            /\ RLt(Rat(max_change), RAbs(RSub(drift_ms, dd.measured[2])))
         THEN FALSE
    ELSE TRUE

\* A measurement accepted whatever it is.
validate_drift_measurement_accept_all(dd, drift_ms, correlation) == TRUE

\* _validate_drift_measurement(drift_ms, correlation)
validate_drift_measurement(dd, drift_ms, correlation) ==
    IF RLt(correlation, min_correlation) THEN FALSE
    ELSE IF RLt(Rat(max_drift_ms), RAbs(drift_ms)) THEN FALSE
    ELSE IF /\ Len(dd.drift_history) > 0
            /\ RLt(Rat(max_change),
                   RAbs(RSub(drift_ms, dd.drift_history[Len(dd.drift_history)])))
         THEN FALSE
    ELSE TRUE

\* measure_drift: the reference audio could not be fetched, the measurement
\* did not validate, or _calculate_correlation raised.
measurement_failed(dd) ==
    [dd EXCEPT !.failed_measurements = @ + 1,
               !.calls = @ + 1,
               !.result = "None"]

\* measure_drift with "Keep history limited" left out.
measurement_accepted_unlimited(dd, drift_ms, correlation) ==
    [dd EXCEPT !.last_drift_ms = drift_ms,
               !.last_correlation = correlation,
               !.last_measurement_time = dd.calls + 1,
               !.measurement_count = @ + 1,
               !.drift_history = Append(@, drift_ms),
               !.correlation_history = Append(@, correlation),
               !.calls = @ + 1,
               !.result = "valid"]

\* measure_drift: "Update state", "Update history", "Keep history limited".
measurement_accepted(dd, drift_ms, correlation) ==
    [dd EXCEPT !.last_drift_ms = drift_ms,
               !.last_correlation = correlation,
               !.last_measurement_time = dd.calls + 1,
               !.measurement_count = @ + 1,
               !.drift_history = LastN(Append(@, drift_ms), max_history),
               !.correlation_history = LastN(Append(@, correlation), max_history),
               !.calls = @ + 1,
               !.result = "valid"]

\* reset_statistics()
reset_statistics(dd) ==
    [dd EXCEPT !.drift_history = << >>,
               !.correlation_history = << >>,
               !.measurement_count = 0,
               !.failed_measurements = 0]

\* measure_drift(mic_audio) as one call under measurement_lock; fetched tells
\* whether _fetch_reference_audio returned audio, and (drift_ms, correlation)
\* is what _calculate_correlation made of it.
measure_drift(dd, fetched, drift_ms, correlation) ==
    IF ~fetched THEN measurement_failed(dd)
    ELSE IF ~validate_drift_measurement(dd, drift_ms, correlation)
         THEN measurement_failed(dd)
    ELSE measurement_accepted(dd, drift_ms, correlation)

(***************************************************************************)
(* MQTTClient (receiver) and the publishing side of MQTTServer             *)
(***************************************************************************)

\* protocol.py: DEFAULT_QOS, "at least once delivery".
DEFAULT_QOS == 1

\* The qos of client.publish(topic, payload): the call names none, which in
\* paho-mqtt is qos 0.
publish_qos == 0

\* MQTTClient._on_connect: the topics it subscribes to, for device "dev1".
client_topics ==
    { "syncstream/buffer_offset/dev1", "syncstream/config/dev1",
      "syncstream/command/dev1", "syncstream/command/all",
      "syncstream/sync_status" }

\* MQTTClient.__init__; start_pc is where the thread calling start() is,
\* heartbeat_thread is 0 for None and else the number of the thread object it
\* refers to, loops the position of every heartbeat thread ever started,
\* subscriptions what the broker holds for the session, published what has
\* been handed to client.publish, pending_connect whether a connect event
\* has had no registration publish after it.
ClientConstructed ==
    [ is_connected |-> FALSE,
      start_pc |-> "new",
      heartbeat_running |-> FALSE,
      heartbeat_thread |-> 0,
      loops |-> << >>,
      subscriptions |-> {},
      messages_sent |-> 0,
      connection_attempts |-> 0,
      connects |-> 0,
      disconnects |-> 0,
      server_is_connected |-> FALSE,
      published |-> {},
      pending_connect |-> FALSE ]

\* client.publish(topic, payload) of a message of the given kind.
publish(c, kind) ==
    [c EXCEPT !.published = @ \cup {[kind |-> kind, qos |-> publish_qos]},
              !.messages_sent = @ + 1,
              !.pending_connect = IF kind = "register" THEN FALSE ELSE @]

\* register_device(): nothing is sent unless connected.
register_device_message(c) ==
    IF ~c.is_connected THEN c ELSE publish(c, "register")

\* _start_heartbeat(): nothing if heartbeat_running, else the flag is set
\* and a new thread is started at the test of its loop.
start_heartbeat(c) ==
    IF c.heartbeat_running THEN c
    ELSE [c EXCEPT !.heartbeat_running = TRUE,
                   !.loops = Append(@, "test"),
                   !.heartbeat_thread = Len(c.loops) + 1]

\* stop() after the join: loop_stop, disconnect, is_connected = False.
stop_disconnect(c) ==
    [c EXCEPT !.is_connected = FALSE,
              !.subscriptions = {},
              !.start_pc = "new"]

\* _on_connect(rc = 0): is_connected and the five subscriptions.
on_connect(c) ==
    [c EXCEPT !.is_connected = TRUE,
              !.subscriptions = @ \cup client_topics,
              !.connects = @ + 1,
              !.pending_connect = TRUE]

(***************************************************************************)
(* Microphone capture (I2SMicCapture and USBMicCapture share the code)     *)
(***************************************************************************)

\* queue.Queue(maxsize=...) of the capture classes.
maxsize == 2

\* pc is where the capture thread is in _read_audio_data, chunk the chunk it
\* holds (chunks are numbered as captured); consumed and discarded are
\* histories, each discarded chunk with the newest chunk captured by then.
MicConstructed ==
    [ audio_queue |-> << >>,
      pc |-> "read",
      chunk |-> 0,
      captured |-> 0,
      chunks_captured |-> 0,
      consumed |-> << >>,
      discarded |-> {} ]

(***************************************************************************)
(* Functions of the protocol and of the HTTP API, as calls                 *)
(***************************************************************************)

NoCall == [fn |-> "none"]

\* MQTTServer._topic_matches(topic, pattern), both already split at '/'.
RECURSIVE parts_match(_, _)
parts_match(topic_parts, pattern_parts) ==
    IF topic_parts = << >> THEN TRUE
    ELSE IF Head(pattern_parts) = "+"
         THEN parts_match(Tail(topic_parts), Tail(pattern_parts))
    ELSE IF Head(pattern_parts) = "#" THEN TRUE
    ELSE IF Head(topic_parts) # Head(pattern_parts) THEN FALSE
    ELSE parts_match(Tail(topic_parts), Tail(pattern_parts))

topic_matches(topic_parts, pattern_parts) ==
    IF Len(topic_parts) # Len(pattern_parts) THEN FALSE
    ELSE parts_match(topic_parts, pattern_parts)

ComponentsIdle ==
    /\ detector = DetectorConstructed
    /\ client = ClientConstructed
    /\ mic = MicConstructed
    /\ evaluated = NoCall

BesideControllerIdle ==
    /\ status = NoStatus
    /\ caller_edits = 0
    /\ BufferConstructed
    /\ before_change = NoChange
    /\ ComponentsIdle

\* The program just constructed, or its start-up burst some ticks ago.
Init ==
    /\ BesideControllerIdle
    /\ build \in Builds
    /\ \/ InitFrom(Constructed, StartTime)
       \/ \E base \in BaseLatencies, v2 \in WarmDriftValues, idle \in IdleTicks :
             InitFrom(WarmedUp(build, base, v2), StartTime + idle)

\* The number of events from outside (clock ticks, connection changes,
\* registrations, resyncs, drift reports) so far.
Events ==
    counters.ticks + counters.reports + counters.registrations
      + counters.resyncs + counters.toggles

\* A message goes to the first idle handler thread.
Dispatched(t) == t = "t1" \/ pc["t1"] # "idle"

\* A lock that lets every caller in.
CanAcquire_unlocked(t) == TRUE

\* threading.RLock: free, or already held by the caller.
CanAcquire(t) == lock \in {NoThread, t}

\* time.time() advances.
Tick(dt) ==
    /\ counters.ticks < MaxTicks
    /\ Events < MaxEvents
    /\ now' = now + dt
    /\ counters' = [counters EXCEPT !.ticks = @ + 1]
    /\ UNCHANGED beside_controller
    /\ UNCHANGED << build, devices, device_configs, sync_groups, sync_events,
                    last_sync_time, lock, is_connected, published, pc, msg,
                    offset_ms, outcome, applied_offset, sync_log,
                    adjustments >>

\* MQTTServer._on_connect (rc = 0) / _on_disconnect.
OnConnect ==
    /\ ~is_connected
    /\ is_connected' = TRUE
    /\ UNCHANGED beside_controller
    /\ UNCHANGED << build, now, devices, device_configs, sync_groups, sync_events,
                    last_sync_time, lock, published, pc, msg, offset_ms, outcome,
                    applied_offset, sync_log, adjustments, counters >>

OnDisconnect ==
    /\ is_connected
    /\ counters.toggles < MaxToggles
    /\ Events < MaxEvents
    /\ is_connected' = FALSE
    /\ counters' = [counters EXCEPT !.toggles = @ + 1]
    /\ UNCHANGED beside_controller
    /\ UNCHANGED << build, now, devices, device_configs, sync_groups, sync_events,
                    last_sync_time, lock, published, pc, msg, offset_ms, outcome,
                    applied_offset, sync_log, adjustments >>

\* SyncController.register_device(device_id, config), the whole call under
\* the lock.
RegisterDevice(device_id, config) ==
    /\ lock = NoThread
    /\ counters.registrations < MaxRegistrations
    /\ Events < MaxEvents
    /\ \E r \in {register_device(devices, device_configs, sync_groups, device_id, config)} :
           /\ devices' = r.devices
           /\ device_configs' = r.device_configs
           /\ sync_groups' = r.sync_groups
    /\ counters' = [counters EXCEPT !.registrations = @ + 1]
    /\ UNCHANGED beside_controller
    /\ UNCHANGED << build, now, sync_events, last_sync_time, lock, is_connected,
                    published, pc, msg, offset_ms, outcome, applied_offset,
                    sync_log, adjustments >>

\* SyncController.force_resync(group_name), the whole call under the lock.
ForceResync(group_name) ==
    /\ lock = NoThread
    /\ counters.resyncs < MaxResyncs
    /\ Events < MaxEvents
    /\ \E r \in {force_resync(State.c, sync_groups, last_sync_time, group_name, now)} :
           /\ devices' = r.c.devices
           /\ sync_events' = r.c.sync_events
           /\ sync_log' = r.c.log
           /\ adjustments' = r.c.adjustments
           /\ last_sync_time' = r.last_sync_time
    /\ counters' = [counters EXCEPT !.resyncs = @ + 1]
    /\ UNCHANGED beside_controller
    /\ UNCHANGED << build, now, device_configs, sync_groups, lock, is_connected,
                    published, pc, msg, offset_ms, outcome, applied_offset >>

\* A drift report arrives on syncstream/drift/<device_id>: _on_message picks
\* _handle_drift_message, which reads drift_ms and signal_strength from the
\* payload and calls update_device_drift.
ReceiveDrift(t, device_id, drift_ms, signal_strength) ==
    /\ pc[t] = "idle"
    /\ Dispatched(t)
    /\ counters.reports < MaxReports
    /\ Events < MaxEvents
    /\ ~IsNumber(drift_ms) => counters.invalid < MaxInvalid
    /\ msg' = [msg EXCEPT ![t] = [device_id |-> device_id, drift_ms |-> drift_ms,
                                  signal_strength |-> signal_strength]]
    /\ pc' = [pc EXCEPT ![t] = "update"]
    /\ outcome' = [outcome EXCEPT ![t] = "none"]
    /\ counters' = [counters EXCEPT !.reports = @ + 1,
                                    !.invalid = IF IsNumber(drift_ms) THEN @ ELSE @ + 1]
    /\ UNCHANGED beside_controller
    /\ UNCHANGED << build, now, devices, device_configs, sync_groups, sync_events,
                    last_sync_time, lock, is_connected, published, offset_ms,
                    applied_offset, sync_log, adjustments >>

\* update_device_drift takes the lock; an unknown device ends the call, a
\* known one gets the first half of update_drift.
UpdateEnter(t) ==
    /\ pc[t] = "update"
    /\ CanAcquire(t)
    /\ \E e \in {enter_update(State, msg[t].device_id, msg[t].drift_ms,
                                msg[t].signal_strength, now)} :
           /\ devices' = e.st.c.devices
           /\ IF e.known
              THEN /\ lock' = t
                   /\ pc' = [pc EXCEPT ![t] = "stats"]
                   /\ UNCHANGED outcome
              ELSE /\ outcome' = [outcome EXCEPT ![t] = "unknown"]
                   /\ pc' = [pc EXCEPT ![t] = "offset"]
                   /\ UNCHANGED lock
    /\ UNCHANGED beside_controller
    /\ UNCHANGED << build, now, device_configs, sync_groups, sync_events,
                    last_sync_time, is_connected, published, msg, offset_ms,
                    applied_offset, sync_log, adjustments, counters >>

\* The rest of update_device_drift: the second half of update_drift, then
\* _check_synchronization; the lock is released on return and on exception.
\* An exception ends _handle_drift_message in its except clause.
UpdateFinish(t) ==
    /\ pc[t] = "stats"
    /\ lock = t
    /\ lock' = NoThread
    /\ \E r \in {finish_update(build, State, sync_groups, msg[t].device_id,
                                 msg[t].drift_ms, msg[t].signal_strength, now)} :
           /\ devices' = r.st.c.devices
           /\ sync_events' = r.st.c.sync_events
           /\ sync_log' = r.st.c.log
           /\ adjustments' = r.st.c.adjustments
           /\ last_sync_time' = r.st.last_sync_time
           /\ outcome' = [outcome EXCEPT ![t] = r.outcome]
           /\ IF r.outcome = "returned"
              THEN /\ pc' = [pc EXCEPT ![t] = "offset"]
                   /\ applied_offset' = [applied_offset EXCEPT ![t] =
                                           r.st.c.devices[msg[t].device_id].current_offset_ms]
              ELSE /\ pc' = [pc EXCEPT ![t] = "idle"]
                   /\ UNCHANGED applied_offset
    /\ UNCHANGED beside_controller
    /\ UNCHANGED << build, now, device_configs, sync_groups, is_connected,
                    published, msg, offset_ms, counters >>

\* offset_ms = self.sync_controller.get_device_offset(device_id)
GetOffset(t) ==
    /\ pc[t] = "offset"
    /\ CanAcquire(t)
    /\ offset_ms' = [offset_ms EXCEPT ![t] = get_device_offset(devices, msg[t].device_id)]
    /\ pc' = [pc EXCEPT ![t] = "publish"]
    /\ UNCHANGED beside_controller
    /\ UNCHANGED << build, now, devices, device_configs, sync_groups, sync_events,
                    last_sync_time, lock, is_connected, published, msg, outcome,
                    applied_offset, sync_log, adjustments, counters >>

\* self.publish_buffer_offset(device_id, offset_ms); the handler then returns.
PublishBufferOffset(t) ==
    /\ pc[t] = "publish"
    /\ published' = publish_buffer_offset(published, is_connected,
                                          msg[t].device_id, offset_ms[t])
    /\ pc' = [pc EXCEPT ![t] = "idle"]
    /\ UNCHANGED beside_controller
    /\ UNCHANGED << build, now, devices, device_configs, sync_groups, sync_events,
                    last_sync_time, lock, is_connected, msg, offset_ms, outcome,
                    applied_offset, sync_log, adjustments, counters >>

Next ==
    \/ \E dt \in TimeSteps : Tick(dt)
    \/ OnConnect
    \/ OnDisconnect
    \/ \E d \in DeviceIds, cfg \in Configs : RegisterDevice(d, cfg)
    \/ \E g \in GroupNames \cup {""} : ForceResync(g)
    \/ \E t \in Threads, d \in DeviceIds, v \in DriftValues \cup InvalidDrifts,
          s \in SignalStrengths : ReceiveDrift(t, d, v, s)
    \/ \E t \in Threads : UpdateEnter(t)
    \/ \E t \in Threads : UpdateFinish(t)
    \/ \E t \in Threads : GetOffset(t)
    \/ \E t \in Threads : PublishBufferOffset(t)

Spec == Init /\ [][Next]_vars

(***************************************************************************)
(* Properties.                                                             *)
(***************************************************************************)

\* The target a logged pass computed for device d, if it computed one.
HasPassTarget(e, d) == \E i \in 1..Len(e.targets) : e.targets[i][1] = d
PassTarget(e, d) ==
    LET i == CHOOSE i \in 1..Len(e.targets) : e.targets[i][1] = d
    IN  e.targets[i][2]

\* Log entries i < j are successive passes of one group.
Successive(i, j) ==
    /\ i < j
    /\ sync_log[i].group = sync_log[j].group
    /\ \A k \in (i + 1)..(j - 1) : sync_log[k].group # sync_log[i].group

\* C1: when two successive sync passes of a group compute the same target
\* for a device that is stable in both, the later pass multiplies
\* |current_offset_ms - target_offset_ms| by (1 - adjustment_rate).
C1_OffsetContraction ==
    \A i, j \in 1..Len(sync_log) :
        ( /\ Successive(i, j)
          /\ sync_log[i].synced /\ ~sync_log[i].raised
          /\ sync_log[j].synced /\ ~sync_log[j].raised )
        => \A d \in sync_log[i].stable \cap sync_log[j].stable :
              ( /\ HasPassTarget(sync_log[i], d)
                /\ HasPassTarget(sync_log[j], d)
                /\ PassTarget(sync_log[i], d) = PassTarget(sync_log[j], d) )
              => LET target == PassTarget(sync_log[j], d)
                 IN  RAbs(RSub(sync_log[j].after[d], target))
                       = RMul(RSub(Rat(1), adjustment_rate),
                              RAbs(RSub(sync_log[j].before[d], target)))

\* C2: the k-th BufferOffset published for a device carries the
\* current_offset_ms its k-th adjustment by a sync pass produced; nothing is
\* published for a device that no pass adjusted.
C2_PublishExactlyAdjusted ==
    [][ \A d \in DeviceIds :
          published'[d] # published[d]
          => /\ Len(published'[d]) <= Len(adjustments'[d])
             /\ published'[d][Len(published'[d])]
                  = adjustments'[d][Len(published'[d])] ]_vars

\* C3: every registered device id is a member of exactly one sync group.
C3_ExactlyOneGroup ==
    \A d \in DOMAIN devices :
        Cardinality({ i \in 1..Len(sync_groups) : InSeq(d, sync_groups[i].ids) }) = 1

\* C4: a sync pass does not count a timed-out device among the stable
\* devices and leaves its current_offset_ms as it was.
C4_TimedOutSkipped ==
    \A i \in 1..Len(sync_log) :
        /\ sync_log[i].timed_out \cap sync_log[i].stable = {}
        /\ sync_log[i].synced
           => \A d \in sync_log[i].timed_out :
                 sync_log[i].after[d] = sync_log[i].before[d]

\* C5: update_device_drift called with a numeric drift_ms never ends with an
\* exception.
C5_UpdateNeverRaises ==
    \A t \in Threads :
        IsNumber(msg[t].drift_ms) => outcome[t] \in {"none", "unknown", "returned"}

\* C6: handling a drift message whose drift_ms is not a number leaves the
\* registered device it names exactly as it was.
C6_InvalidDropped ==
    [][ \A t \in Threads :
          ( /\ pc[t] \in {"update", "stats"}
            /\ pc'[t] # pc[t]
            /\ ~IsNumber(msg[t].drift_ms)
            /\ msg[t].device_id \in DOMAIN devices )
          => devices'[msg[t].device_id] = devices[msg[t].device_id] ]_vars

\* C7: update_device_drift for an id that is not registered creates no
\* DeviceState, adds the id to no group, runs no sync pass and changes no
\* registered device.
C7_UnknownDeviceDropped ==
    [][ \A t \in Threads :
          ( /\ pc[t] = "update"
            /\ pc'[t] # "update"
            /\ msg[t].device_id \notin DOMAIN devices )
          => /\ devices' = devices
             /\ device_configs' = device_configs
             /\ sync_groups' = sync_groups
             /\ sync_events' = sync_events
             /\ last_sync_time' = last_sync_time
             /\ sync_log' = sync_log
             /\ adjustments' = adjustments
             /\ outcome'[t] = "unknown" ]_vars

\* C7 happens: a report for an unregistered id went through
\* update_device_drift while a registered device held samples.
C7_Witness ==
    \E t \in Threads :
        /\ pc[t] = "offset"
        /\ outcome[t] = "unknown"
        /\ msg[t].device_id \notin DOMAIN devices
        /\ \E d \in DOMAIN devices : devices[d].drift_history # <<>>

\* C8: two sync passes that update_device_drift ran for the same group lie
\* at least min_sync_interval_seconds apart.
C8_RateLimited ==
    \A i, j \in 1..Len(sync_log) :
        ( /\ i < j
          /\ sync_log[i].by = "drift" /\ sync_log[j].by = "drift"
          /\ sync_log[i].group = sync_log[j].group
          /\ sync_log[i].synced /\ sync_log[j].synced )
        => sync_log[j].time - sync_log[i].time >= MinSyncIntervalTicks

\* C9: the controller calls take effect one at a time.  A drift report for
\* a registered device appends exactly its own sample to the device's
\* history; a history changes in no other way than by such an append or by
\* a registration; and while a thread stands in the middle of update_drift
\* no other call (report, registration, sync pass) changes the controller.
C9_OneAtATime ==
    [][ /\ \A d \in DOMAIN devices :
             devices'[d].drift_history # devices[d].drift_history
             => \/ devices'[d].drift_history = <<>>
                \/ \E t \in Threads :
                      /\ pc[t] = "update" /\ pc'[t] = "stats"
                      /\ msg[t].device_id = d
                      /\ devices'[d].drift_history =
                           Append(devices[d].drift_history,
                                  [ drift_ms |-> msg[t].drift_ms,
                                    timestamp |-> now,
                                    signal_strength |-> msg[t].signal_strength ])
        /\ \A t \in Threads :
             ( /\ pc[t] = "update" /\ pc'[t] # "update"
               /\ msg[t].device_id \in DOMAIN devices )
             => Len(devices'[msg[t].device_id].drift_history)
                  = Len(devices[msg[t].device_id].drift_history) + 1
        /\ \A t \in Threads :
             (pc[t] = "stats" /\ pc'[t] = "stats")
             => /\ devices' = devices
                /\ device_configs' = device_configs
                /\ sync_groups' = sync_groups
                /\ sync_events' = sync_events
                /\ last_sync_time' = last_sync_time
                /\ sync_log' = sync_log ]_vars

\* C9 happens: one thread stands in the middle of update_drift for a device
\* while the other thread waits to enter update_device_drift with a report
\* for the same device.
C9_Witness ==
    \E t, u \in Threads :
        /\ t # u
        /\ pc[t] = "stats" /\ lock = t
        /\ pc[u] = "update"
        /\ msg[u].device_id = msg[t].device_id
        /\ msg[t].device_id \in DOMAIN devices

\* C10: the offset_ms a handler is about to publish for a report is the
\* device's current_offset_ms as update_device_drift left it for that report.
C10_PublishedMatchesApplied ==
    \A t \in Threads :
        (pc[t] = "publish" /\ outcome[t] = "returned")
        => offset_ms[t] = applied_offset[t]

(***************************************************************************)
(* Status queries: the controller with whole handler calls, the clock, and *)
(* a caller of get_all_status() that keeps and changes what it was given.  *)
(***************************************************************************)

\* _handle_drift_message from start to end on the one paho loop thread.
HandleDrift(device_id, drift_ms, signal_strength) ==
    /\ lock = NoThread
    /\ is_connected
    /\ counters.reports < MaxReports
    /\ Events < MaxEvents
    /\ \E r \in {handle_drift_message(build, State, sync_groups, device_id,
                                        drift_ms, signal_strength, now)} :
           /\ devices' = r.c.devices
           /\ sync_events' = r.c.sync_events
           /\ sync_log' = r.c.log
           /\ adjustments' = r.c.adjustments
           /\ last_sync_time' = r.last_sync_time
           /\ published' = r.published
    /\ counters' = [counters EXCEPT !.reports = @ + 1]
    /\ UNCHANGED beside_controller
    /\ UNCHANGED << build, now, device_configs, sync_groups, lock, is_connected,
                    pc, msg, offset_ms, outcome, applied_offset >>

\* status = sync_controller.get_all_status(), the whole call under the lock.
GetAllStatus ==
    /\ lock = NoThread
    /\ status' = get_all_status(devices, now)
    /\ UNCHANGED << controller_vars, buffer_vars, history_vars, component_vars, caller_edits >>

\* list.append on a group's member list.
with_member(groups, group_name, device_id) ==
    [groups EXCEPT ![GroupIndex(groups, group_name)].ids = Append(@, device_id)]

\* The caller runs status['sync_groups'][group_name].append(device_id): the
\* list changed is the one the dict entry refers to.
CallerAppendsMember(group_name, device_id) ==
    /\ status.taken
    /\ caller_edits < MaxCallerEdits
    /\ caller_edits' = caller_edits + 1
    /\ status.sync_groups = SameObject
    /\ GroupIndex(sync_groups, group_name) # 0
    /\ sync_groups' = with_member(sync_groups, group_name, device_id)
    /\ UNCHANGED status
    /\ UNCHANGED << build, now, devices, device_configs, sync_events,
                    last_sync_time, lock, is_connected, published, pc, msg,
                    offset_ms, outcome, applied_offset, sync_log, adjustments,
                    counters >>
    /\ UNCHANGED << buffer_vars, history_vars, component_vars >>

\* The caller runs status['devices'][device_id]['is_online'] = value: the
\* dict changed is the one get_status() built.
CallerEditsStatus(device_id, value) ==
    /\ status.taken
    /\ device_id \in DOMAIN status.devices
    /\ caller_edits < MaxCallerEdits
    /\ caller_edits' = caller_edits + 1
    /\ status' = [status EXCEPT !.devices[device_id].is_online = value]
    /\ UNCHANGED << controller_vars, buffer_vars, history_vars, component_vars >>

CallerStep ==
    \/ \E g \in GroupNames, d \in DeviceIds : CallerAppendsMember(g, d)
    \/ \E d \in DeviceIds, v \in BOOLEAN : CallerEditsStatus(d, v)

\* The controller's part of a status run takes MaxStatusEvents events.
StatusNext ==
    \/ \E dt \in TimeSteps : Events < MaxStatusEvents /\ Tick(dt)
    \/ \E d \in DeviceIds, cfg \in Configs :
          Events < MaxStatusEvents /\ RegisterDevice(d, cfg)
    \/ \E d \in DeviceIds, v \in DriftValues, s \in SignalStrengths :
          Events < MaxStatusEvents /\ HandleDrift(d, v, s)
    \/ GetAllStatus
    \/ \E g \in GroupNames, d \in DeviceIds : CallerAppendsMember(g, d)
    \/ \E d \in DeviceIds, v \in BOOLEAN : CallerEditsStatus(d, v)

StatusSpec == Init /\ [][StatusNext]_vars

\* C11: what get_all_status() returned shares no mutable structure with the
\* controller: a step in which the caller changes the returned sync_groups
\* map, one of its member lists or a device status entry leaves the
\* controller's group membership and every DeviceState as they were.
C11_SnapshotIsolated ==
    [][CallerStep => UNCHANGED << sync_groups, devices >>]_vars

(***************************************************************************)
(* Offline reporting: the controller with whole handler calls, the clock,  *)
(* and the status loop of mqtt_server.py, which calls get_all_status()     *)
(* again and again (broadcast_sync_status in the main loop).               *)
(***************************************************************************)

OfflineNext ==
    \/ \E dt \in TimeSteps : Events < MaxStatusEvents /\ Tick(dt)
    \/ \E d \in DeviceIds, cfg \in Configs :
          Events < MaxStatusEvents /\ RegisterDevice(d, cfg)
    \/ \E d \in DeviceIds, v \in DriftValues, s \in SignalStrengths :
          Events < MaxStatusEvents /\ HandleDrift(d, v, s)
    \/ GetAllStatus

OfflineSpec == Init /\ [][OfflineNext]_vars /\ WF_vars(GetAllStatus)

\* The device has had no drift update for more than the online timeout.
Silent(d) ==
    /\ d \in DOMAIN devices
    /\ now - devices[d].last_seen > OnlineTimeoutTicks

\* The status the caller holds was taken more than the online timeout after
\* the device's last update and reports the device offline.
ReportedOffline(d) ==
    /\ status.taken
    /\ d \in DOMAIN status.devices
    /\ status.at - status.devices[d].last_seen > OnlineTimeoutTicks
    /\ ~status.devices[d].is_online

MaxScenarioTicks == 2
MaxScenarioResyncs == 1

ScenarioConfig ==
    [ d1 |-> [base_latency_ms |-> 50, sync_group |-> "G"],
      d2 |-> [base_latency_ms |-> 100, sync_group |-> "G"] ]

ScenarioDrifts ==
    [ d1 |-> <<10, 12, 11, 10, 12>>,
      d2 |-> <<-8, -10, -9, -10, -8>> ]

ScenarioDevices == DOMAIN ScenarioDrifts

\* register_device for d1, then for d2, on a controller just constructed.
ScenarioRegistered ==
    registered(registered(Constructed, "d1", ScenarioConfig["d1"]),
               "d2", ScenarioConfig["d2"])

ConvergenceInit ==
    /\ BesideControllerIdle
    /\ build \in Builds
    /\ InitFrom(ScenarioRegistered, StartTime)

\* The device's next drift report, handled by _handle_drift_message from
\* start to end.
ScenarioReport(device_id) ==
    /\ lock = NoThread
    /\ Len(devices[device_id].drift_history) < Len(ScenarioDrifts[device_id])
    /\ \E r \in {handle_drift_message(
                    build, State, sync_groups, device_id,
                    ScenarioDrifts[device_id][Len(devices[device_id].drift_history) + 1],
                    -50, now)} :
           /\ devices' = r.c.devices
           /\ sync_events' = r.c.sync_events
           /\ sync_log' = r.c.log
           /\ adjustments' = r.c.adjustments
           /\ last_sync_time' = r.last_sync_time
           /\ published' = r.published
    /\ counters' = [counters EXCEPT !.reports = @ + 1]
    /\ UNCHANGED beside_controller
    /\ UNCHANGED << build, now, device_configs, sync_groups, lock, is_connected,
                    pc, msg, offset_ms, outcome, applied_offset >>

\* time.time() advances by min_sync_interval_seconds.
ScenarioTick ==
    /\ counters.ticks < MaxScenarioTicks
    /\ now' = now + MinSyncIntervalTicks
    /\ counters' = [counters EXCEPT !.ticks = @ + 1]
    /\ UNCHANGED beside_controller
    /\ UNCHANGED << build, devices, device_configs, sync_groups, sync_events,
                    last_sync_time, lock, is_connected, published, pc, msg,
                    offset_ms, outcome, applied_offset, sync_log, adjustments >>

\* SyncController.force_resync('G'), the whole call under the lock.
ScenarioResync ==
    /\ lock = NoThread
    /\ counters.resyncs < MaxScenarioResyncs
    /\ \E r \in {force_resync(State.c, sync_groups, last_sync_time, "G", now)} :
           /\ devices' = r.c.devices
           /\ sync_events' = r.c.sync_events
           /\ sync_log' = r.c.log
           /\ adjustments' = r.c.adjustments
           /\ last_sync_time' = r.last_sync_time
    /\ counters' = [counters EXCEPT !.resyncs = @ + 1]
    /\ UNCHANGED beside_controller
    /\ UNCHANGED << build, now, device_configs, sync_groups, lock, is_connected,
                    published, pc, msg, offset_ms, outcome, applied_offset >>

ConvergenceNext ==
    \/ \E d \in ScenarioDevices : ScenarioReport(d)
    \/ ScenarioTick
    \/ ScenarioResync

ConvergenceSpec == ConvergenceInit /\ [][ConvergenceNext]_vars

\* Neither offset of the two devices has been changed yet.
OffsetsUntouched ==
    \A d \in ScenarioDevices :
        /\ devices[d].current_offset_ms = Rat(0)
        /\ devices[d].target_offset_ms = Rat(0)

\* The offsets the first pass over both devices is to set: reference drift
\* median(11, -9) = 1, targets 50 + 1 - 11 and 100 + 1 + 9, a tenth applied.
OffsetsAfterFirstPass ==
    /\ devices["d1"].target_offset_ms = Rat(40)
    /\ devices["d1"].current_offset_ms = Rat(4)
    /\ devices["d2"].target_offset_ms = Rat(110)
    /\ devices["d2"].current_offset_ms = Rat(11)

\* The most recent _sync_group call found both devices stable.
LastPassSawBoth ==
    /\ Len(sync_log) > 0
    /\ ScenarioDevices \subseteq sync_log[Len(sync_log)].stable

\* C12: with both offsets at 0, the first sync pass that sees d1 and d2
\* stable (each after its five reports) sets target 40 / current 4 for d1
\* and target 110 / current 11 for d2, and no step before that pass changes
\* either offset.
C12_TwoDeviceConvergence ==
    [][ /\ (OffsetsUntouched /\ ~OffsetsUntouched') => OffsetsAfterFirstPass'
        /\ (OffsetsUntouched /\ sync_log' # sync_log /\ LastPassSawBoth')
              => OffsetsAfterFirstPass' ]_vars

(***************************************************************************)
(* Median robustness: a group G of two or three devices, each reporting a  *)
(* steady drift for a whole statistics window; then one device changes the *)
(* drift it reports and again fills the window.                            *)
(***************************************************************************)

MaxDriftChanges == 1

MedianDrifts == {0 - max_drift_ms, 0, 10, 40, max_drift_ms}
GroupSizes == {2, 3}
MemberIds == <<"d1", "d2", "d3">>

\* DEFAULT_RECENT_DRIFTS_WINDOW reports of drift_ms by one device.
steady_member(b, r, device_id, drift_ms) ==
    [r EXCEPT !.st = reported(b, r.st, r.sync_groups, device_id, drift_ms,
                              DEFAULT_RECENT_DRIFTS_WINDOW, StartTime)]

\* Members i.. of the group registered in turn, each then reporting its drift.
RECURSIVE steady_from(_, _, _, _)
steady_from(b, r, drifts, i) ==
    IF i > Len(drifts) THEN r
    ELSE steady_from(b,
                     steady_member(b,
                                   registered(r, MemberIds[i],
                                              [base_latency_ms |-> 50,
                                               sync_group |-> "G"]),
                                   MemberIds[i], drifts[i]),
                     drifts, i + 1)

MedianInit ==
    /\ BesideControllerIdle
    /\ build \in Builds
    /\ \E n \in GroupSizes :
         \E drifts \in [1..n -> MedianDrifts] :
            InitFrom(steady_from(build, Constructed, drifts, 1), StartTime)

\* The member list of group G.
GroupG == sync_groups[GroupIndex(sync_groups, "G")].ids

\* The sorted avg_drift_ms values of G's stable devices.
SortedStableDrifts == SortRat(stable_drifts(devices, stable_devices(devices, GroupG)))

\* One device reports the new drift for a whole statistics window.
ChangeDrift(device_id, drift_ms) ==
    /\ lock = NoThread
    /\ device_id \in DOMAIN devices
    /\ counters.reports < MaxDriftChanges * DEFAULT_RECENT_DRIFTS_WINDOW
    /\ devices[device_id].last_drift_ms # drift_ms
    /\ before_change' = [ changed |-> TRUE,
                          device |-> device_id,
                          drifts |-> SortedStableDrifts,
                          reference |-> reference_drift(devices, GroupG) ]
    /\ \E r \in {reported(build, State, sync_groups, device_id, drift_ms,
                            DEFAULT_RECENT_DRIFTS_WINDOW, now)} :
           /\ devices' = r.c.devices
           /\ sync_events' = r.c.sync_events
           /\ sync_log' = r.c.log
           /\ adjustments' = r.c.adjustments
           /\ last_sync_time' = r.last_sync_time
           /\ published' = r.published
    /\ counters' = [counters EXCEPT !.reports = @ + DEFAULT_RECENT_DRIFTS_WINDOW]
    /\ UNCHANGED << status_vars, buffer_vars, component_vars >>
    /\ UNCHANGED << build, now, device_configs, sync_groups, lock, is_connected,
                    pc, msg, offset_ms, outcome, applied_offset >>

MedianNext == \E d \in DeviceIds, w \in MedianDrifts : ChangeDrift(d, w)

MedianSpec == MedianInit /\ [][MedianNext]_vars

\* The gap between the (N/2)th and the (N/2+1)th of N sorted values.
MiddleGap(sorted) ==
    RSub(sorted[Len(sorted) \div 2 + 1], sorted[Len(sorted) \div 2])

\* One device of a group of N >= 2 stable devices has changed its drift, and
\* the group still has N stable devices.
OneDriftChanged ==
    /\ before_change.changed
    /\ Len(before_change.drifts) >= 2
    /\ Len(SortedStableDrifts) = Len(before_change.drifts)

\* How far the change moved the reference drift.
ReferenceShift == RAbs(RSub(reference_drift(devices, GroupG), before_change.reference))

\* C13 as stated: the reference drift is the median of the stable devices'
\* avg_drift_ms, and one device changing its drift within +-max_drift_ms
\* moves it by at most the gap between the (N/2)th and (N/2+1)th of the
\* sorted drifts of the group.
C13_MedianGapBound ==
    OneDriftChanged => RLe(ReferenceShift, MiddleGap(before_change.drifts))

\* C13, amended: the reference drift is the median of the stable devices'
\* avg_drift_ms, and one device changing its drift within +-max_drift_ms
\* moves it by at most the larger of two gaps: the one between the (N/2)th
\* and (N/2+1)th sorted drifts before the change and the one between them
\* after the change.
C13_MedianRobust ==
    OneDriftChanged =>
        RLe(ReferenceShift,
            RMax(MiddleGap(before_change.drifts), MiddleGap(SortedStableDrifts)))

\* A device of a three-device group changed its drift and moved the median.
C13_Witness ==
    /\ OneDriftChanged
    /\ Len(SortedStableDrifts) = 3
    /\ ReferenceShift # Rat(0)

(***************************************************************************)
(* One DeviceState and its update_drift calls.                             *)
(***************************************************************************)

MaxDeviceUpdates == 5

SampleDrifts == {0, 10, 100}
SampleSignals == {-50, -80}

\* register_device('d1', ...) on a controller just constructed.
OneDevice ==
    registered(Constructed, "d1", [base_latency_ms |-> 50, sync_group |-> "G"])

DeviceInit ==
    /\ BesideControllerIdle
    /\ build \in Builds
    /\ InitFrom(OneDevice, StartTime)

\* self.devices['d1'].update_drift(drift_ms, signal_strength); what the
\* call leaves behind whether it returns or raises.
DeviceUpdate(drift_ms, signal_strength) ==
    /\ counters.reports < MaxDeviceUpdates
    /\ devices' = [devices EXCEPT
                     !["d1"] = update_drift(build, @, drift_ms, signal_strength,
                                            now).dev]
    /\ counters' = [counters EXCEPT !.reports = @ + 1]
    /\ UNCHANGED beside_controller
    /\ UNCHANGED << build, now, device_configs, sync_groups, sync_events,
                    last_sync_time, lock, is_connected, published, pc, msg,
                    offset_ms, outcome, applied_offset, sync_log, adjustments >>

DeviceNext ==
    \E v \in SampleDrifts, s \in SampleSignals : DeviceUpdate(v, s)

DeviceSpec == DeviceInit /\ [][DeviceNext]_vars

\* |drift_ms - avg_drift_ms| > 3 * sqrt(drift_variance), squared.
SampleIsOutlier(dev, drift_ms) ==
    RLt(RMul(Rat(9), dev.drift_variance),
        RMul(RSub(Rat(drift_ms), dev.avg_drift_ms),
             RSub(Rat(drift_ms), dev.avg_drift_ms)))

\* C14: an update_drift whose sample lies more than three standard
\* deviations from the device's avg_drift_ms never turns is_stable from
\* false to true.
C14_StabilityAntitone ==
    [][ \A d \in DOMAIN devices :
          ( /\ devices'[d] # devices[d]
            /\ SampleIsOutlier(devices[d], devices'[d].last_drift_ms)
            /\ ~is_stable(devices[d]) )
          => ~is_stable(devices'[d]) ]_vars

(***************************************************************************)
(* A long run of update_drift calls on one DeviceState: the k-th sample    *)
(* carries drift k, so that the samples of the history can be told apart.  *)
(***************************************************************************)

MaxSamples == 52

HistoryInit ==
    /\ BesideControllerIdle
    /\ build \in Builds
    /\ InitFrom(OneDevice, StartTime)

\* self.devices['d1'].update_drift(k, -50) for the k-th sample.
NextSample ==
    /\ counters.reports < MaxSamples
    /\ devices' = [devices EXCEPT
                     !["d1"] = update_drift(build, @, counters.reports + 1, -50,
                                            now).dev]
    /\ counters' = [counters EXCEPT !.reports = @ + 1]
    /\ UNCHANGED beside_controller
    /\ UNCHANGED << build, now, device_configs, sync_groups, sync_events,
                    last_sync_time, lock, is_connected, published, pc, msg,
                    offset_ms, outcome, applied_offset, sync_log, adjustments >>

\* time.time() advances between two samples.
HistoryTick ==
    /\ counters.ticks < MaxTicks
    /\ now' = now + 1
    /\ counters' = [counters EXCEPT !.ticks = @ + 1]
    /\ UNCHANGED beside_controller
    /\ UNCHANGED << build, devices, device_configs, sync_groups, sync_events,
                    last_sync_time, lock, is_connected, published, pc, msg,
                    offset_ms, outcome, applied_offset, sync_log, adjustments >>

HistoryNext == NextSample \/ HistoryTick

HistorySpec == HistoryInit /\ [][HistoryNext]_vars

\* C16: after any number of update_drift calls the drift history holds at
\* most drift_history_maxlen (50) samples, and they are the most recent
\* samples in arrival order: once 50 are held, each new one evicts the oldest.
C16_BoundedHistory ==
    \A d \in DOMAIN devices :
        /\ Len(devices[d].drift_history) <= DEFAULT_DRIFT_HISTORY_MAXLEN
        /\ Len(devices[d].drift_history)
             = MinInt(counters.reports, DEFAULT_DRIFT_HISTORY_MAXLEN)
        /\ \A i \in 1..Len(devices[d].drift_history) :
             devices[d].drift_history[i].drift_ms
               = counters.reports - Len(devices[d].drift_history) + i

\* More samples have arrived than the history holds.
C16_Witness ==
    /\ counters.reports > DEFAULT_DRIFT_HISTORY_MAXLEN
    /\ Len(devices["d1"].drift_history) = DEFAULT_DRIFT_HISTORY_MAXLEN
    /\ devices["d1"].drift_history[1].drift_ms > 1

(***************************************************************************)
(* AudioBuffer: one writer thread, reader threads and clear().  The k-th   *)
(* frame handed to write() is the number k, so that frames can be told     *)
(* apart.  write() runs frame by frame and read() in two steps (the        *)
(* position arithmetic, then the copy), each call holding the lock from    *)
(* entry to return.                                                        *)
(***************************************************************************)

ExtraFrames == 1
MaxChunk == 2

\* The frames handed to write() in one run.
MaxFramesTotal == buffer_size + ExtraFrames

\* Durations asking for 0, 1, 2, buffer_size and buffer_size + 1 frames
\* (the first two by truncation of half a frame), in seconds.
Durations ==
    { Norm(k, 2 * sample_rate) : k \in {1, 3, 4, 2 * buffer_size, 2 * buffer_size + 2} }

\* Offsets of 0, -1 (by truncation of -1.5) and +1 frames, in seconds.
Offsets == { Norm(k, 2 * sample_rate) : k \in {0, -3, 2} }

\* A lock that lets every caller in.
CanAcquireBuffer_unlocked(t) == TRUE

\* threading.RLock of the AudioBuffer: free, or already held by the caller.
CanAcquireBuffer(t) == buffer_lock \in {NoThread, t}

BufferInit ==
    /\ BesideControllerIdle
    /\ build = "host"
    /\ InitFrom(Constructed, StartTime)

\* write(audio_data) takes the lock; audio_data is a chunk of n new frames.
WriteBegin(n) ==
    /\ write_call.pc = "idle"
    /\ CanAcquireBuffer(Writer)
    /\ frames_total + n <= MaxFramesTotal
    /\ buffer_lock' = Writer
    /\ write_call' = [ pc |-> "loop",
                       audio_data |-> [k \in 1..n |-> frames_total + k],
                       i |-> 1,
                       ring_before |-> Ring ]
    /\ frames_total' = frames_total + n
    /\ UNCHANGED << buffer, write_index, samples_written, read_call, returned >>
    /\ UNCHANGED beside_buffer

\* One turn of the loop of write(); after the last one the call returns and
\* releases the lock.
WriteFrame ==
    /\ write_call.pc = "loop"
    /\ \E b \in {write_frame(Ring, write_call.audio_data[write_call.i])} :
           /\ buffer' = b.buffer
           /\ write_index' = b.write_index
           /\ samples_written' = b.samples_written
    /\ IF write_call.i < Len(write_call.audio_data)
       THEN /\ write_call' = [write_call EXCEPT !.i = @ + 1]
            /\ UNCHANGED buffer_lock
       ELSE /\ write_call' = NoWrite
            /\ buffer_lock' = NoThread
    /\ UNCHANGED << read_call, returned, frames_total >>
    /\ UNCHANGED beside_buffer

\* read(duration, offset) takes the lock and computes num_samples,
\* offset_samples, start_pos and the clamped num_samples.
ReadBegin(r, duration, offset) ==
    /\ read_call[r].pc = "idle"
    /\ CanAcquireBuffer(r)
    /\ buffer_lock' = r
    /\ read_call' = [read_call EXCEPT
                       ![r] = [ pc |-> "copy",
                                duration |-> duration,
                                offset |-> offset,
                                start_pos |-> start_position(Ring, duration, offset),
                                num_samples |-> clamped_samples(Ring, duration) ]]
    /\ UNCHANGED << buffer, write_index, samples_written, write_call, returned,
                    frames_total >>
    /\ UNCHANGED beside_buffer

\* The ring as the write in progress found it, and as that write leaves it.
ViewBefore == IF write_call.pc = "loop" THEN write_call.ring_before ELSE Ring
ViewAfter ==
    IF write_call.pc = "loop"
    THEN write(write_call.ring_before, write_call.audio_data)
    ELSE Ring

\* The copy loop and the timestamp of read(); the call returns and releases
\* the lock.
ReadFinish(r) ==
    /\ read_call[r].pc = "copy"
    /\ returned' = [ by |-> "reader",
                     duration |-> read_call[r].duration,
                     offset |-> read_call[r].offset,
                     audio_data |-> copy_frames(Ring, read_call[r].start_pos,
                                                read_call[r].num_samples),
                     timestamp |-> read_timestamp(Ring, read_call[r].num_samples,
                                                  read_call[r].offset),
                     samples_written |-> samples_written,
                     newest |-> frames_total,
                     view_before |-> ViewBefore,
                     view_after |-> ViewAfter ]
    /\ read_call' = [read_call EXCEPT ![r] = NoRead]
    /\ buffer_lock' = NoThread
    /\ UNCHANGED << buffer, write_index, samples_written, write_call, frames_total >>
    /\ UNCHANGED beside_buffer

\* No clear() has been called yet: every frame handed to write() is counted.
NeverCleared == write_call.pc = "idle" /\ samples_written = frames_total

\* clear(), the whole call under the lock; the first clear() of a run on a
\* buffer that holds something.
Clear ==
    /\ buffer_lock = NoThread
    /\ NeverCleared
    /\ samples_written > 0
    /\ buffer' = EmptyRing.buffer
    /\ write_index' = EmptyRing.write_index
    /\ samples_written' = EmptyRing.samples_written
    /\ UNCHANGED << buffer_lock, write_call, read_call, returned, frames_total >>
    /\ UNCHANGED beside_buffer

BufferNext ==
    \/ \E n \in 1..MaxChunk : WriteBegin(n)
    \/ WriteFrame
    \/ \E r \in Readers, d \in Durations, o \in Offsets : ReadBegin(r, d, o)
    \/ \E r \in Readers : ReadFinish(r)
    \/ Clear

BufferSpec == BufferInit /\ [][BufferNext]_vars

(***************************************************************************)
(* C17: the window a read asks for, and the frames of it the buffer holds  *)
(***************************************************************************)

MaxInt(a, b) == IF a >= b THEN a ELSE b

\* The window of a returned read, in frames counted from the last clear():
\* frame j (0-based) is the number newest - samples_written + 1 + j.
WindowFirst(ret) ==
    ret.samples_written - requested_samples(ret.duration) + offset_samples(ret.offset)
WindowEnd(ret) == ret.samples_written + offset_samples(ret.offset)
RetainedFirst(ret) == ret.samples_written - MinInt(ret.samples_written, buffer_size)
RetainedEnd(ret) == ret.samples_written

NotWhollyRetained(ret) ==
    /\ requested_samples(ret.duration) > 0
    /\ \/ requested_samples(ret.duration) > MinInt(ret.samples_written, buffer_size)
       \/ WindowFirst(ret) < RetainedFirst(ret)
       \/ WindowEnd(ret) > RetainedEnd(ret)

\* The retained frames of the window, oldest first.
RetainedOfWindow(ret) ==
    [ k \in 1..MaxInt(MinInt(WindowEnd(ret), RetainedEnd(ret))
                        - MaxInt(WindowFirst(ret), RetainedFirst(ret)), 0) |->
        ret.newest - ret.samples_written
          + MaxInt(WindowFirst(ret), RetainedFirst(ret)) + k ]

\* C17: a read of at least one frame whose window is not wholly inside the retained frames returns
\* exactly the retained frames of that window, in the order they were written,
\* and fewer frames than it asked for.
C17_ShortReadClamped ==
    (returned.by # "none" /\ NotWhollyRetained(returned))
        => /\ returned.audio_data = RetainedOfWindow(returned)
           /\ Len(returned.audio_data) < requested_samples(returned.duration)

(***************************************************************************)
(* C18: read(d, 0) and get_latest(d)                                       *)
(***************************************************************************)

\* At most d * sample_rate frames, starting at
\* (samples_written - frames returned) / sample_rate.
LatestWithin(audio_data, timestamp, duration, written) ==
    /\ RLe(Rat(Len(audio_data)), RMul(duration, Rat(sample_rate)))
    /\ timestamp = RDiv(Rat(written - Len(audio_data)), Rat(sample_rate))

\* C18: read(d, 0) returns at most d * sample_rate frames, and the start time
\* it returns is (samples_written - returned frames) / sample_rate; the same
\* holds of get_latest(d) on every state of the buffer.
C18_LatestRead ==
    /\ (returned.by # "none" /\ returned.offset = Rat(0))
           => LatestWithin(returned.audio_data, returned.timestamp,
                           returned.duration, returned.samples_written)
    /\ \A d \in Durations :
           LatestWithin(get_latest(Ring, d).audio_data, get_latest(Ring, d).timestamp,
                        d, samples_written)

\* A read(d, 0) has returned fewer frames than it asked for, and one frame
\* at least.
C18_Witness ==
    /\ returned.by # "none"
    /\ returned.offset = Rat(0)
    /\ Len(returned.audio_data) > 0
    /\ Len(returned.audio_data) < requested_samples(returned.duration)
    /\ returned.samples_written > buffer_size

(***************************************************************************)
(* C19: samples_written under write() and read()                           *)
(***************************************************************************)

\* A step of a write() call or of a read() call.
WriteStep == write_call' # write_call
ReadStep == read_call' # read_call

\* C19: no step of a write() call and no step of a read() call, however the
\* calls are interleaved, lowers samples_written.
C19_SamplesWrittenMonotone ==
    [][(WriteStep \/ ReadStep) => samples_written' >= samples_written]_vars

\* The ring has wrapped around (write_index is back at the start while
\* samples_written counts on) and a read has returned since.
C19_Witness ==
    /\ samples_written > buffer_size
    /\ write_index < samples_written
    /\ returned.by # "none"
    /\ returned.samples_written > buffer_size

(***************************************************************************)
(* C20: a write is atomic with respect to reads                            *)
(***************************************************************************)

\* What read(duration, offset) returns on the ring v taken as a whole.
ReadOf(v, ret) ==
    /\ ret.audio_data = read(v, ret.duration, ret.offset).audio_data
    /\ ret.timestamp = read(v, ret.duration, ret.offset).timestamp
    /\ ret.samples_written = v.samples_written

\* C20: every read returns the frames and the start time of read() on the
\* ring either as the write in progress found it or as that write leaves it,
\* with the samples_written of that same ring; and no read() holds the lock
\* while a write() is between two frames.
C20_WriteAtomic ==
    /\ returned.by # "none"
           => (ReadOf(returned.view_before, returned) \/ ReadOf(returned.view_after, returned))
    /\ \A r \in Readers : ~(read_call[r].pc = "copy" /\ write_call.pc = "loop")

\* A reader holds the frames of a read while the writer is between the two
\* frames of a later chunk.
C20_Witness ==
    /\ returned.by # "none"
    /\ Len(returned.audio_data) > 1
    /\ returned.samples_written > 1
    /\ write_call.pc = "loop"
    /\ write_call.i = 2
    /\ samples_written > returned.samples_written

(***************************************************************************)
(* DriftDetector: a run of measure_drift calls                             *)
(***************************************************************************)

MaxMeasureCalls == 4

\* What _calculate_correlation may return, in ms and as a coefficient.
MeasuredDrifts == { Rat(5), Rat(50), Rat(120), Rat(0 - 1100), Rat(1000) }
MeasuredCorrelations == { Norm(9, 10), Norm(7, 10), Norm(1, 2) }

DetectorInit ==
    /\ BesideControllerIdle
    /\ build = "host"
    /\ InitFrom(Constructed, StartTime)

\* One measure_drift call; measured records its inputs.
MeasureDrift(fetched, drift_ms, correlation) ==
    /\ detector.calls < MaxMeasureCalls
    /\ detector' = [measure_drift(detector, fetched, drift_ms, correlation)
                      EXCEPT !.measured = << fetched, drift_ms, correlation >>]
    /\ UNCHANGED beside_detector

DetectorNext ==
    \E fetched \in BOOLEAN, drift_ms \in MeasuredDrifts,
       correlation \in MeasuredCorrelations :
        MeasureDrift(fetched, drift_ms, correlation)

DetectorSpec == DetectorInit /\ [][DetectorNext]_vars

\* The three grounds of rejection: correlation below the threshold, drift out
\* of range, or a jump of more than 100 ms from the last accepted drift.
MustReject(dd, drift_ms, correlation) ==
    \/ RLt(correlation, Norm(7, 10))
    \/ RLt(Rat(1000), RAbs(drift_ms))
    \/ /\ dd.measurement_count > 0
       /\ RLt(Rat(100), RAbs(RSub(drift_ms, dd.last_drift_ms)))

RejectedStep ==
    /\ detector'.calls = detector.calls + 1
    /\ detector'.measured[1]
    /\ MustReject(detector, detector'.measured[2], detector'.measured[3])

\* C21: a measure_drift call whose measurement is to be rejected adds one to
\* failed_measurements and leaves drift_history, correlation_history,
\* last_drift_ms, last_correlation and measurement_count as they were.
C21_RejectionLeavesState ==
    [][RejectedStep =>
          /\ detector'.failed_measurements = detector.failed_measurements + 1
          /\ detector'.drift_history = detector.drift_history
          /\ detector'.correlation_history = detector.correlation_history
          /\ detector'.last_drift_ms = detector.last_drift_ms
          /\ detector'.last_correlation = detector.last_correlation
          /\ detector'.measurement_count = detector.measurement_count]_vars

\* The jump guard has tripped: last accepted drift 5 ms, then an estimate of
\* 120 ms with correlation 0.9 came back as None.
C21_Witness ==
    /\ detector.drift_history = << Rat(5) >>
    /\ detector.measured = << TRUE, Rat(120), Norm(9, 10) >>
    /\ detector.result = "None"
    /\ detector.failed_measurements = 1
    /\ detector.measurement_count = 1

(***************************************************************************)
(* The message bus: the receiver's client over connects and disconnects,   *)
(* and what receiver and transmitter publish                               *)
(***************************************************************************)

MaxDisconnects == 2
MaxPublishes == 3

BusInit ==
    /\ BesideControllerIdle
    /\ build = "host"
    /\ InitFrom(Constructed, StartTime)

\* start(): connection_attempts, client.connect and loop_start; the caller
\* then waits for is_connected.
ClientStart ==
    /\ client.start_pc = "new"
    /\ client' = [client EXCEPT !.start_pc = "waiting",
                                !.connection_attempts = @ + 1]
    /\ UNCHANGED beside_client

\* The network loop's thread: _on_connect with rc = 0, on the first
\* connection and on every reconnection.
ClientOnConnect ==
    /\ client.start_pc # "new"
    /\ ~client.is_connected
    /\ client' = on_connect(client)
    /\ UNCHANGED beside_client

\* start() once is_connected is seen: _start_heartbeat, register_device,
\* return True.
ClientStartConnected ==
    /\ client.start_pc = "waiting"
    /\ client.is_connected
    /\ client' = [register_device_message(start_heartbeat(client))
                    EXCEPT !.start_pc = "started"]
    /\ UNCHANGED beside_client

\* start() after 10 s without is_connected: return False.
ClientStartTimeout ==
    /\ client.start_pc = "waiting"
    /\ ~client.is_connected
    /\ client' = [client EXCEPT !.start_pc = "failed"]
    /\ UNCHANGED beside_client

\* The connection to the broker is lost: _on_disconnect; the broker drops
\* the subscriptions of the session.
ClientOnDisconnect ==
    /\ client.is_connected
    /\ client.disconnects < MaxDisconnects
    /\ client' = [client EXCEPT !.is_connected = FALSE,
                                !.subscriptions = {},
                                !.disconnects = @ + 1]
    /\ UNCHANGED beside_client

\* report_drift, report_status and the heartbeat loop.
ClientPublish(kind) ==
    /\ client.is_connected
    /\ client.messages_sent < MaxPublishes
    /\ kind = "heartbeat" => client.heartbeat_running
    /\ client' = publish(client, kind)
    /\ UNCHANGED beside_client

\* MQTTServer._on_connect and _on_disconnect.
ServerOnConnect ==
    /\ ~client.server_is_connected
    /\ client.disconnects < MaxDisconnects
    /\ client' = [client EXCEPT !.server_is_connected = TRUE]
    /\ UNCHANGED beside_client

ServerOnDisconnect ==
    /\ client.server_is_connected
    /\ client.disconnects < MaxDisconnects
    /\ client' = [client EXCEPT !.server_is_connected = FALSE,
                                !.disconnects = @ + 1]
    /\ UNCHANGED beside_client

\* MQTTServer.publish_buffer_offset and publish_command.
ServerPublish(kind) ==
    /\ client.server_is_connected
    /\ client.messages_sent < MaxPublishes
    /\ client' = [publish(client, kind) EXCEPT !.pending_connect = client.pending_connect]
    /\ UNCHANGED beside_client

BusNext ==
    \/ ClientStart
    \/ ClientOnConnect
    \/ ClientStartConnected
    \/ ClientStartTimeout
    \/ ClientOnDisconnect
    \/ \E kind \in {"drift", "status", "heartbeat"} : ClientPublish(kind)
    \/ ServerOnConnect
    \/ ServerOnDisconnect
    \/ \E kind \in {"buffer_offset", "command"} : ServerPublish(kind)

BusSpec == BusInit /\ [][BusNext]_vars

\* The network loop and the thread in start() both keep running.
FairBusSpec ==
    BusSpec /\ WF_vars(ClientOnConnect) /\ WF_vars(ClientStartConnected)
            /\ WF_vars(ClientStartTimeout)

\* C22: whenever the client is connected it holds its five subscriptions,
\* and every connect event is eventually followed by a registration publish.
C22_ReconnectReregisters ==
    /\ [](client.is_connected => client_topics \subseteq client.subscriptions)
    /\ (client.pending_connect ~> ~client.pending_connect)

\* C23: every drift report, buffer offset, command and registration is
\* published with QoS 1.
C23_AtLeastOnce ==
    \A m \in client.published :
        m.kind \in {"drift", "buffer_offset", "command", "register"} => m.qos = 1

(***************************************************************************)
(* MQTTServer._topic_matches on topics and patterns of a few levels        *)
(***************************************************************************)

MaxLevels == 3

TopicLevels == { "syncstream", "drift", "dev1" }
PatternLevels == TopicLevels \cup { "+", "#" }

\* What topic.split('/') and pattern.split('/') can give.
SplitTopics == UNION { [1..n -> TopicLevels] : n \in 1..MaxLevels }
SplitPatterns == UNION { [1..n -> PatternLevels] : n \in 1..MaxLevels }

CallsInit ==
    /\ BesideControllerIdle
    /\ build = "host"
    /\ InitFrom(Constructed, StartTime)

TopicMatches(topic_parts, pattern_parts) ==
    /\ evaluated = NoCall
    /\ evaluated' = [ fn |-> "_topic_matches",
                      topic |-> topic_parts,
                      pattern |-> pattern_parts,
                      result |-> topic_matches(topic_parts, pattern_parts) ]
    /\ UNCHANGED beside_evaluated

MatcherNext ==
    \E topic_parts \in SplitTopics, pattern_parts \in SplitPatterns :
        TopicMatches(topic_parts, pattern_parts)

MatcherSpec == CallsInit /\ [][MatcherNext]_vars

\* A pattern as MQTT allows it: '#' only as the last level.
WellFormedPattern(pattern_parts) ==
    \A i \in 1..Len(pattern_parts) : pattern_parts[i] = "#" => i = Len(pattern_parts)

\* '+' stands for exactly one level, '#' for the remaining levels, anything
\* else for itself.
RECURSIVE WildcardMatch(_, _)
WildcardMatch(topic_parts, pattern_parts) ==
    IF pattern_parts = << >> THEN topic_parts = << >>
    ELSE IF Head(pattern_parts) = "#" THEN topic_parts # << >>
    ELSE IF topic_parts = << >> THEN FALSE
    ELSE /\ Head(pattern_parts) \in { "+", Head(topic_parts) }
         /\ WildcardMatch(Tail(topic_parts), Tail(pattern_parts))

\* C24: for every topic and every pattern with '#' at most at its end, the
\* matcher answers as the wildcards are defined: '+' one level, '#' one or
\* more remaining levels, no wildcard only the identical topic.
C24_TopicMatcher ==
    (evaluated.fn = "_topic_matches" /\ WellFormedPattern(evaluated.pattern))
        => evaluated.result = WildcardMatch(evaluated.topic, evaluated.pattern)

(***************************************************************************)
(* Microphone capture: the capture thread and the consumer on the queue    *)
(***************************************************************************)

MaxChunks == 5

\* _read_audio_data: a chunk is read and put(block=False) either queues it
\* or raises queue.Full.
CaptureChunk ==
    /\ mic.pc = "read"
    /\ mic.captured < MaxChunks
    /\ mic' = IF Len(mic.audio_queue) < maxsize
              THEN [mic EXCEPT !.chunk = mic.captured + 1,
                               !.captured = @ + 1,
                               !.audio_queue = Append(@, mic.captured + 1),
                               !.chunks_captured = @ + 1]
              ELSE [mic EXCEPT !.chunk = mic.captured + 1,
                               !.captured = @ + 1,
                               !.pc = "drop_oldest"]
    /\ UNCHANGED beside_mic

\* except queue.Full: get(block=False) takes the oldest chunk out, or raises
\* queue.Empty, which is passed over and leaves the new chunk unqueued.
CaptureDropOldest ==
    /\ mic.pc = "drop_oldest"
    /\ mic' = IF mic.audio_queue # << >>
              THEN [mic EXCEPT !.audio_queue = Tail(@),
                               !.discarded = @ \cup {[chunk |-> Head(mic.audio_queue),
                                                      latest |-> mic.captured]},
                               !.pc = "put_again"]
              ELSE [mic EXCEPT !.discarded = @ \cup {[chunk |-> mic.chunk,
                                                      latest |-> mic.captured]},
                               !.pc = "read"]
    /\ UNCHANGED beside_mic

\* The second put(block=False); a queue.Full here is not caught by the inner
\* handler and ends the loop.
CapturePutAgain ==
    /\ mic.pc = "put_again"
    /\ mic' = IF Len(mic.audio_queue) < maxsize
              THEN [mic EXCEPT !.audio_queue = Append(@, mic.chunk), !.pc = "read"]
              ELSE [mic EXCEPT !.pc = "stopped"]
    /\ UNCHANGED beside_mic

\* get_latest_chunk() with a chunk in the queue.
GetLatestChunk ==
    /\ mic.audio_queue # << >>
    /\ mic' = [mic EXCEPT !.audio_queue = Tail(@),
                          !.consumed = Append(@, Head(mic.audio_queue))]
    /\ UNCHANGED beside_mic

MicNext ==
    \/ CaptureChunk
    \/ CaptureDropOldest
    \/ CapturePutAgain
    \/ GetLatestChunk

MicSpec == CallsInit /\ [][MicNext]_vars

\* C25: the queue never holds more than maxsize chunks, chunks are consumed
\* in capture order, and a chunk that is discarded is never the most recently
\* captured one.
C25_DropOldest ==
    /\ Len(mic.audio_queue) <= maxsize
    /\ \A i, j \in 1..Len(mic.consumed) : i < j => mic.consumed[i] < mic.consumed[j]
    /\ \A d \in mic.discarded : d.chunk < d.latest

(***************************************************************************)
(* protocol.py: messages, serialize_message and deserialize_message        *)
(*                                                                         *)
(* A Python value is a record of its type t, an integer n, a string s and  *)
(* its items (a dict keeps key, value, key, value, ...).  Numbers are      *)
(* integers here; 5 and 5.0 are equal in Python and are not told apart.    *)
(***************************************************************************)

PyValue(t, n, str, items) == [t |-> t, n |-> n, s |-> str, items |-> items]
PyNone == PyValue("none", 0, "", << >>)
PyNum(n) == PyValue("num", n, "", << >>)
PyStr(str) == PyValue("str", 0, str, << >>)
PyBool(b) == PyValue("bool", IF b THEN 1 ELSE 0, "", << >>)
PyList(items) == PyValue("list", 0, "", items)
PyTuple(items) == PyValue("tuple", 0, "", items)
PyDict(items) == PyValue("dict", 0, "", items)
PyEnum(name) == PyValue("enum", 0, name, << >>)

\* json.dumps turns a dict key that is not a string into one.
json_key(k) ==
    CASE k.t = "str" -> k.s
      [] k.t = "num" -> ToString(k.n)
      [] k.t = "bool" -> IF k.n = 1 THEN "true" ELSE "false"
      [] OTHER -> "null"

\* json.dumps with every value but strings handed to str().
json_dumps_all_str(v) ==
    IF v.t = "str" THEN PyValue("string", 0, v.s, << >>)
    ELSE PyValue("string", 0, v.t, << >>)

\* json.dumps(data, default=str), as the JSON value it writes: tuples are
\* written as arrays, dict keys as strings, and anything json does not know
\* (an Enum member here) as the string str() makes of it.
RECURSIVE json_dumps(_)
json_dumps(v) ==
    CASE v.t = "none" -> PyValue("null", 0, "", << >>)
      [] v.t = "num" -> PyValue("number", v.n, "", << >>)
      [] v.t = "str" -> PyValue("string", 0, v.s, << >>)
      [] v.t = "bool" -> PyValue("boolean", v.n, "", << >>)
      [] v.t \in {"list", "tuple"} ->
            PyValue("array", 0, "", [i \in 1..Len(v.items) |-> json_dumps(v.items[i])])
      [] v.t = "dict" ->
            PyValue("object", 0, "",
                    [i \in 1..Len(v.items) |->
                        IF i % 2 = 1
                        THEN PyValue("string", 0, json_key(v.items[i]), << >>)
                        ELSE json_dumps(v.items[i])])
      [] OTHER -> PyValue("string", 0, v.s, << >>)

\* json.loads of a JSON value.
RECURSIVE json_loads(_)
json_loads(j) ==
    CASE j.t = "null" -> PyNone
      [] j.t = "number" -> PyNum(j.n)
      [] j.t = "string" -> PyStr(j.s)
      [] j.t = "boolean" -> PyValue("bool", j.n, "", << >>)
      [] j.t = "array" -> PyList([i \in 1..Len(j.items) |-> json_loads(j.items[i])])
      [] OTHER -> PyDict([i \in 1..Len(j.items) |-> json_loads(j.items[i])])

MessageTypes ==
    { "drift", "buffer_offset", "register", "status", "heartbeat", "config",
      "command", "sync_status" }

\* The value a field left None gets in __post_init__ at time t, or None
\* where __post_init__ leaves None alone.
post_init_default(message_type, field, t) ==
    CASE message_type = "drift" /\ field = "measurement_time" -> PyNum(t)
      [] message_type # "drift" /\ field = "timestamp" -> PyNum(t)
      [] message_type = "register" /\ field = "capabilities" -> PyList(<< >>)
      [] message_type = "command" /\ field = "params" -> PyDict(<< >>)
      [] message_type = "command" /\ field = "command_id" -> PyStr("cmd_" \o ToString(t))
      [] OTHER -> PyNone

\* message_class(**data) at time t: the fields as given, then __post_init__.
construct(message_type, data, t) ==
    [ field \in DOMAIN data |->
        IF data[field] = PyNone THEN post_init_default(message_type, field, t)
        ELSE data[field] ]

\* serialize_message(message): asdict, then json.dumps.
serialize_message(message) ==
    [ field \in DOMAIN message |-> json_dumps(message[field]) ]

\* deserialize_message(message_type, json_data) at time t.
deserialize_message(message_type, json_data, t) ==
    construct(message_type, [ field \in DOMAIN json_data |-> json_loads(json_data[field]) ], t)

\* One message of each dataclass, as its constructor is called.
BaseData(message_type) ==
    CASE message_type = "drift" ->
            [ device_id |-> PyStr("dev1"), drift_ms |-> PyNum(5), correlation |-> PyNum(1),
              signal_strength |-> PyNum(0 - 50), measurement_time |-> PyNone,
              measurement_count |-> PyNum(0), avg_drift_ms |-> PyNone,
              drift_variance |-> PyNone ]
      [] message_type = "buffer_offset" ->
            [ device_id |-> PyStr("dev1"), offset_ms |-> PyNum(5), timestamp |-> PyNone,
              sync_group |-> PyNone ]
      [] message_type = "register" ->
            [ device_id |-> PyStr("dev1"), device_name |-> PyStr("Kitchen"),
              device_type |-> PyStr("analog"), location |-> PyNone,
              base_latency_ms |-> PyNum(0), sync_group |-> PyStr("default"),
              capabilities |-> PyNone, version |-> PyStr("1.0"), ip_address |-> PyNone ]
      [] message_type = "status" ->
            [ device_id |-> PyStr("dev1"), is_online |-> PyBool(TRUE),
              is_playing |-> PyBool(FALSE), is_muted |-> PyBool(FALSE),
              volume |-> PyNum(1), current_offset_ms |-> PyNum(0), cpu_usage |-> PyNum(0),
              memory_usage |-> PyNum(0), temperature |-> PyNum(0), uptime |-> PyNum(0),
              last_drift_ms |-> PyNum(0), correlation_quality |-> PyNum(0),
              timestamp |-> PyNone ]
      [] message_type = "heartbeat" ->
            [ device_id |-> PyStr("dev1"), timestamp |-> PyNone, sequence |-> PyNum(0) ]
      [] message_type = "config" ->
            [ device_id |-> PyStr("dev1"),
              config |-> PyDict(<< PyStr("volume"), PyNum(1) >>),
              config_version |-> PyStr("1.0"), timestamp |-> PyNone ]
      [] message_type = "command" ->
            [ device_id |-> PyStr("dev1"), command |-> PyStr("resync"), params |-> PyNone,
              command_id |-> PyNone, timestamp |-> PyNone ]
      [] OTHER ->
            [ sync_groups |-> PyDict(<< PyStr("default"), PyList(<< PyStr("dev1") >>) >>),
              device_count |-> PyNum(1), online_devices |-> PyNum(1),
              sync_events |-> PyNum(0), last_sync_time |-> PyNum(0),
              avg_drift_ms |-> PyNum(0), max_drift_ms |-> PyNum(0), timestamp |-> PyNone ]

\* Values a caller may put into a field.
FieldValues ==
    { PyNone, PyNum(0), PyNum(0 - 50), PyStr(""), PyStr("x"), PyBool(TRUE),
      PyList(<< >>), PyList(<< PyStr("a"), PyNum(2) >>), PyTuple(<< PyStr("a") >>),
      PyDict(<< >>), PyDict(<< PyStr("k"), PyList(<< PyNum(1) >>) >>),
      PyDict(<< PyNum(1), PyStr("v") >>), PyDict(<< PyStr("k"), PyTuple(<< >>) >>),
      PyEnum("DeviceType.ANALOG") }

ConstructedAt == 999
DeserializedAt == 1000

\* The messages of a type: the base message with up to one field replaced.
Messages(message_type) ==
    { construct(message_type, [BaseData(message_type) EXCEPT ![field] = v], ConstructedAt) :
        field \in DOMAIN BaseData(message_type), v \in FieldValues }

\* deserialize_message(message_type, serialize_message(message))
SerializeDeserialize(message_type, message) ==
    /\ evaluated = NoCall
    /\ evaluated' = [ fn |-> "deserialize_message",
                      message_type |-> message_type,
                      message |-> message,
                      result |-> deserialize_message(message_type,
                                                     serialize_message(message),
                                                     DeserializedAt) ]
    /\ UNCHANGED beside_evaluated

MessageNext ==
    \E message_type \in MessageTypes :
        \E message \in Messages(message_type) :
            SerializeDeserialize(message_type, message)

MessageSpec == CallsInit /\ [][MessageNext]_vars

\* A value JSON can carry as it is: no tuple, no object of another class,
\* and strings as dict keys.
RECURSIVE JsonNative(_)
JsonNative(v) ==
    CASE v.t \in {"none", "num", "str", "bool"} -> TRUE
      [] v.t = "list" -> \A i \in 1..Len(v.items) : JsonNative(v.items[i])
      [] v.t = "dict" ->
            \A i \in 1..Len(v.items) :
                IF i % 2 = 1 THEN v.items[i].t = "str" ELSE JsonNative(v.items[i])
      [] OTHER -> FALSE

WellFormedMessage(message) == \A field \in DOMAIN message : JsonNative(message[field])

\* C26: for every well-formed message of each of the eight types,
\* deserialize_message(type, serialize_message(m)) has the fields of m with
\* the values of m.
C26_SerializeRoundTrip ==
    (evaluated.fn = "deserialize_message" /\ WellFormedMessage(evaluated.message))
        => /\ DOMAIN evaluated.result = DOMAIN evaluated.message
           /\ \A field \in DOMAIN evaluated.message :
                  evaluated.result[field] = evaluated.message[field]

\* A command message whose params hold a nested list has made the round trip.
C26_Witness ==
    /\ evaluated.fn = "deserialize_message"
    /\ evaluated.message_type = "command"
    /\ evaluated.message.params = PyDict(<< PyStr("k"), PyList(<< PyNum(1) >>) >>)
    /\ evaluated.message.timestamp = PyNum(ConstructedAt)
    /\ evaluated.result = evaluated.message

(***************************************************************************)
(* protocol.py: SyncStreamTopics.get_topic and parse_topic                 *)
(*                                                                         *)
(* A topic is the sequence of its levels, a device id the sequence of the  *)
(* pieces a '/' would cut it into (one piece for an ordinary id), and no   *)
(* device id (None) the empty sequence.                                    *)
(***************************************************************************)

MaxPieces == 2

NoDevice == << >>
BASE == "syncstream"

\* The members of MessageType and the topic word of each.
MessageTypeMembers ==
    { "DRIFT_REPORT", "BUFFER_OFFSET", "DEVICE_REGISTER", "DEVICE_STATUS", "HEARTBEAT",
      "CONFIG_UPDATE", "COMMAND", "SYNC_STATUS", "AUDIO_STREAM" }

\* get_topic: topic_map, the second level of each template.
topic_word(message_type) ==
    CASE message_type = "DRIFT_REPORT" -> "drift"
      [] message_type = "BUFFER_OFFSET" -> "buffer_offset"
      [] message_type = "DEVICE_REGISTER" -> "register"
      [] message_type = "DEVICE_STATUS" -> "status"
      [] message_type = "HEARTBEAT" -> "heartbeat"
      [] message_type = "CONFIG_UPDATE" -> "config"
      [] message_type = "COMMAND" -> "command"
      [] message_type = "SYNC_STATUS" -> "sync_status"
      [] OTHER -> "audio_stream"

\* The templates that hold {device_id}.
has_device_id(message_type) == message_type \notin { "SYNC_STATUS", "AUDIO_STREAM" }

\* A type_map with two entries exchanged.
type_of_word_exchanged(word) ==
    CASE word = "config" -> "COMMAND"
      [] word = "command" -> "CONFIG_UPDATE"
      [] OTHER -> "DRIFT_REPORT"

\* parse_topic: type_map.get(message_type_str)
type_of_word(word) ==
    CASE word = "drift" -> "DRIFT_REPORT"
      [] word = "buffer_offset" -> "BUFFER_OFFSET"
      [] word = "register" -> "DEVICE_REGISTER"
      [] word = "status" -> "DEVICE_STATUS"
      [] word = "heartbeat" -> "HEARTBEAT"
      [] word = "config" -> "CONFIG_UPDATE"
      [] word = "command" -> "COMMAND"
      [] word = "sync_status" -> "SYNC_STATUS"
      [] word = "audio_stream" -> "AUDIO_STREAM"
      [] OTHER -> "None"

Raised == [raised |-> TRUE, topic |-> << >>, message_type |-> "None", device_id |-> NoDevice]

\* get_topic(message_type, device_id)
get_topic(message_type, device_id) ==
    IF has_device_id(message_type)
    THEN IF device_id \in { NoDevice, << "" >> } THEN Raised
         ELSE [Raised EXCEPT !.raised = FALSE,
                             !.topic = << BASE, topic_word(message_type) >> \o device_id]
    ELSE [Raised EXCEPT !.raised = FALSE, !.topic = << BASE, topic_word(message_type) >>]

\* parse_topic(topic)
parse_topic(topic) ==
    IF Len(topic) = 0 \/ topic[1] # BASE THEN Raised
    ELSE IF Len(topic) < 2 THEN Raised
    ELSE IF type_of_word(topic[2]) = "None" THEN Raised
    ELSE [Raised EXCEPT !.raised = FALSE,
                        !.message_type = type_of_word(topic[2]),
                        !.device_id = IF Len(topic) > 2 THEN << topic[3] >> ELSE NoDevice]

DevicePieces == { "dev1", "all", "kitchen", "" }
DeviceIdValues == UNION { [1..n -> DevicePieces] : n \in 0..MaxPieces }

\* parse_topic(get_topic(message_type, device_id))
GetThenParse(message_type, device_id) ==
    /\ evaluated = NoCall
    /\ evaluated' = [ fn |-> "parse_topic",
                      message_type |-> message_type,
                      device_id |-> device_id,
                      topic |-> get_topic(message_type, device_id),
                      result |-> IF get_topic(message_type, device_id).raised THEN Raised
                                 ELSE parse_topic(get_topic(message_type, device_id).topic) ]
    /\ UNCHANGED beside_evaluated

TopicNext ==
    \E message_type \in MessageTypeMembers, device_id \in DeviceIdValues :
        GetThenParse(message_type, device_id)

TopicSpec == CallsInit /\ [][TopicNext]_vars

\* The pairs the topic scheme has a topic for: a per-device message type with
\* a device id of one non-empty level, or a broadcast type with no device id.
RecognizedPair(message_type, device_id) ==
    IF message_type \in { "SYNC_STATUS", "AUDIO_STREAM" }
    THEN device_id = NoDevice
    ELSE Len(device_id) = 1 /\ device_id[1] # ""

\* C27: for every recognized (message_type, device_id) pair,
\* parse_topic(get_topic(message_type, device_id)) returns that pair.
C27_TopicRoundTrip ==
    (evaluated.fn = "parse_topic"
       /\ RecognizedPair(evaluated.message_type, evaluated.device_id))
        => /\ ~evaluated.result.raised
           /\ evaluated.result.message_type = evaluated.message_type
           /\ evaluated.result.device_id = evaluated.device_id

\* The broadcast command topic has made the round trip.
C27_Witness ==
    /\ evaluated.fn = "parse_topic"
    /\ evaluated.message_type = "COMMAND"
    /\ evaluated.device_id = << "all" >>
    /\ evaluated.topic.topic = << "syncstream", "command", "all" >>
    /\ evaluated.result.message_type = "COMMAND"
    /\ evaluated.result.device_id = << "all" >>

(***************************************************************************)
(* routes/audio.py: the reference-audio endpoint GET /audio/buffer         *)
(***************************************************************************)

MaxHalfSeconds == 22

\* MockAudioBuffer.__init__ and the limit written into the validation.
mock_sample_rate == 44100
mock_buffer_duration == 10
duration_limit == 10

\* len(mock_buffer.get_latest_audio(duration))
mock_samples(duration) == IntTrunc(RMul(duration, Rat(mock_sample_rate)))

\* get_audio_buffer() for ?duration=...&format=...; ring_samples_written is
\* the samples_written of the transmitter's ring at the time of the request,
\* which the handler has no access to: it serves from mock_buffer.
get_audio_buffer(duration, format_type, ring_samples_written) ==
    IF RLe(duration, Rat(0)) \/ RLt(Rat(duration_limit), duration)
    THEN [status |-> 400, success |-> FALSE, samples |-> 0, duration |-> duration]
    ELSE [status |-> 200, success |-> TRUE, samples |-> mock_samples(duration),
          duration |-> duration]

RequestDurations == { Norm(k, 2) : k \in (0 - 2)..MaxHalfSeconds }
RingStates == { 0, 1, mock_sample_rate }

GetAudioBuffer(duration, format_type, ring_samples_written) ==
    /\ evaluated = NoCall
    /\ evaluated' = [ fn |-> "get_audio_buffer",
                      duration |-> duration,
                      format |-> format_type,
                      samples_written |-> ring_samples_written,
                      result |-> get_audio_buffer(duration, format_type,
                                                  ring_samples_written) ]
    /\ UNCHANGED beside_evaluated

EndpointNext ==
    \E duration \in RequestDurations, format_type \in {"json", "raw"},
       ring_samples_written \in RingStates :
        GetAudioBuffer(duration, format_type, ring_samples_written)

EndpointSpec == CallsInit /\ [][EndpointNext]_vars

\* C28: the endpoint answers BadRequest (400) exactly when duration <= 0 or
\* duration > buffer_seconds, ServiceUnavailable (503) when the duration is
\* good and the ring has samples_written = 0, and 200 with the audio and its
\* metadata in every other case.
C28_EndpointClassifies ==
    evaluated.fn = "get_audio_buffer"
        => evaluated.result.status =
              IF \/ RLe(evaluated.duration, Rat(0))
                 \/ RLt(Rat(mock_buffer_duration), evaluated.duration)
              THEN 400
              ELSE IF evaluated.samples_written = 0 THEN 503
              ELSE 200

(***************************************************************************)
(* One sync pass: force_resync(group_name) on a group whose members are at *)
(* different stages (no sample yet, a few samples, a full statistics       *)
(* window), one of them possibly after a drift report whose drift_ms was a *)
(* string.                                                                 *)
(***************************************************************************)
PassReportCounts == {0, 2, DEFAULT_RECENT_DRIFTS_WINDOW}
PassDrifts == {0, 40}
PassProfiles == [n : PassReportCounts, drift_ms : PassDrifts]
NoDeviceSpoiled == ""

\* A registered member sends its reports.
pass_member(b, r, device_id, profile) ==
    [r EXCEPT !.st = reported(b, r.st, r.sync_groups, device_id, profile.drift_ms,
                              profile.n, StartTime)]

\* Members i.. of group G registered in turn, each then sending its reports.
RECURSIVE pass_members_from(_, _, _, _)
pass_members_from(b, r, profiles, i) ==
    IF i > Len(profiles) THEN r
    ELSE pass_members_from(
             b,
             pass_member(b,
                         registered(r, MemberIds[i],
                                    [base_latency_ms |-> 50, sync_group |-> "G"]),
                         MemberIds[i], profiles[i]),
             profiles, i + 1)

\* One more report of device_id, its drift_ms a string.
spoiled_by(b, r, device_id) ==
    IF device_id = NoDeviceSpoiled THEN r
    ELSE [r EXCEPT !.st = reported(b, r.st, r.sync_groups, device_id, NaNString,
                                   1, StartTime)]

PassInit ==
    /\ BesideControllerIdle
    /\ build \in Builds
    /\ \E profiles \in [1..Len(MemberIds) -> PassProfiles] :
         \E device_id \in {NoDeviceSpoiled} \cup SeqToSet(MemberIds) :
            InitFrom(spoiled_by(build,
                                pass_members_from(build, Constructed, profiles, 1),
                                device_id),
                     StartTime)

PassNext == \E g \in {"G", ""} : ForceResync(g)

PassSpec == PassInit /\ [][PassNext]_vars

\* A step in which force_resync ran: one pass over G (the only group with
\* members).
PassStep == counters'.resyncs = counters.resyncs + 1

\* The registered members of G.
PassDevices == SeqToSet(GroupG) \cap DOMAIN devices

\* new_target of a device in a pass that starts in the current state.
new_target(d) == calculate_target_offset(devices[d], reference_drift(devices, GroupG))

\* The device is as the adjustment rule leaves it.
RuleApplied(d, target) ==
    IF RLt(Rat(sync_tolerance_ms), RAbs(RSub(target, devices[d].target_offset_ms)))
    THEN /\ devices'[d].current_offset_ms =
                RAdd(devices[d].current_offset_ms,
                     RMul(adjustment_rate,
                          RSub(target, devices[d].current_offset_ms)))
         /\ devices'[d].target_offset_ms = target
    ELSE /\ devices'[d].current_offset_ms = devices[d].current_offset_ms
         /\ devices'[d].target_offset_ms = devices[d].target_offset_ms

\* C29: in a sync pass over a group with at least two stable devices, every
\* device of the group whose new_target is more than sync_tolerance_ms away
\* from its target_offset_ms gets current_offset_ms moved by adjustment_rate
\* times its distance to new_target and target_offset_ms set to new_target,
\* and every other device of the group keeps both offsets.
C29_PassAdjustsEveryDevice ==
    [][ (PassStep /\ Len(stable_devices(devices, GroupG)) >= 2)
          => \A d \in PassDevices :
                new_target(d).ok => RuleApplied(d, new_target(d).val) ]_vars

\* C30: a sync pass over a group with fewer than two stable devices leaves
\* every device's current_offset_ms and target_offset_ms and the sync_events
\* counter as they were.
C30_SkippedPassChangesNothing ==
    [][ (PassStep /\ Len(stable_devices(devices, GroupG)) < 2)
          => /\ sync_events' = sync_events
             /\ \A d \in DOMAIN devices :
                   /\ devices'[d].current_offset_ms = devices[d].current_offset_ms
                   /\ devices'[d].target_offset_ms = devices[d].target_offset_ms ]_vars

\* A forced pass over G has just found one stable device, next to a device
\* whose new_target against that device's drift is out of tolerance.
C30_Witness ==
    /\ counters.resyncs > 0
    /\ sync_log # <<>>
    /\ LET e == sync_log[Len(sync_log)] IN
          /\ e.by = "force"
          /\ e.group = "G"
          /\ ~e.synced
          /\ Cardinality(e.stable) = 1
          /\ \E s \in e.stable, d \in e.members :
                LET t == calculate_target_offset(devices[d], devices[s].avg_drift_ms) IN
                   /\ t.ok
                   /\ RLt(Rat(sync_tolerance_ms),
                          RAbs(RSub(t.val, devices[d].target_offset_ms)))

(***************************************************************************)
(* DeviceState.calculate_target_offset called on a device after zero or    *)
(* more drift samples.                                                     *)
(***************************************************************************)
MaxTargetUpdates == 4

ReferenceDrifts == {-20, 0, 20}

\* self.devices['d1'].update_drift(drift_ms, -50) before the call.
TargetUpdate(drift_ms) ==
    /\ evaluated = NoCall
    /\ counters.reports < MaxTargetUpdates
    /\ devices' = [devices EXCEPT
                     !["d1"] = update_drift(build, @, drift_ms, -50, now).dev]
    /\ counters' = [counters EXCEPT !.reports = @ + 1]
    /\ UNCHANGED beside_controller
    /\ UNCHANGED << build, now, device_configs, sync_groups, sync_events,
                    last_sync_time, lock, is_connected, published, pc, msg,
                    offset_ms, outcome, applied_offset, sync_log, adjustments >>

\* self.devices['d1'].calculate_target_offset(reference)
CalculateTargetOffset(reference) ==
    /\ evaluated = NoCall
    /\ evaluated' =
          [ fn |-> "calculate_target_offset",
            reference |-> reference,
            returned |-> calculate_target_offset(devices["d1"], Rat(reference)) ]
    /\ UNCHANGED beside_evaluated

TargetNext ==
    \/ \E v \in SampleDrifts : TargetUpdate(v)
    \/ \E r \in ReferenceDrifts : CalculateTargetOffset(r)

TargetSpec == DeviceInit /\ [][TargetNext]_vars

\* avg_drift_ms with three samples or more, last_drift_ms otherwise.
Smoothed(dev) ==
    IF Len(dev.drift_history) >= 3 THEN dev.avg_drift_ms ELSE Rat(dev.last_drift_ms)

\* C31: whatever the length of the history, the empty one included,
\* calculate_target_offset(r) returns base_latency_ms + (r - smoothed), with
\* smoothed = avg_drift_ms from three samples on and last_drift_ms before.
C31_TargetOffsetFormula ==
    evaluated.fn = "calculate_target_offset"
      => /\ evaluated.returned.ok
         /\ evaluated.returned.val =
               RAdd(Rat(devices["d1"].base_latency_ms),
                    RSub(Rat(evaluated.reference), Smoothed(devices["d1"])))

(***************************************************************************)
(* The statistics update_drift leaves on the device.                       *)
(***************************************************************************)
\* The sample of the most recent update_drift call.
LastSample(dev) == dev.drift_history[Len(dev.drift_history)]

\* clamp(x, 0, 1)
Clamp(x) == IF RLt(x, Rat(0)) THEN Rat(0) ELSE IF RLt(Rat(1), x) THEN Rat(1) ELSE x

\* The mean of the signal-quality term and the drift-stability term.
QualityFormula(signal_strength, variance) ==
    RDiv(RAdd(Clamp(RDiv(Rat(signal_strength + 80), Rat(30))),
              Clamp(RSub(Rat(1), RDiv(variance, Rat(100))))),
         Rat(2))

\* C32: after every update_drift, the first and the second sample of a
\* device included, connection_quality is the mean of
\* clamp((signal_strength + 80)/30, 0, 1) and clamp(1 - drift_variance/100,
\* 0, 1), and lies in [0, 1].
C32_ConnectionQuality ==
    devices["d1"].drift_history # <<>>
      => /\ devices["d1"].connection_quality =
               QualityFormula(LastSample(devices["d1"]).signal_strength,
                              devices["d1"].drift_variance)
         /\ RLe(Rat(0), devices["d1"].connection_quality)
         /\ RLe(devices["d1"].connection_quality, Rat(1))

\* The drift_ms values of the last min(W, |history|) samples.
WindowDrifts(dev) ==
    [i \in 1..Len(LastN(dev.drift_history, DEFAULT_RECENT_DRIFTS_WINDOW)) |->
        LastN(dev.drift_history, DEFAULT_RECENT_DRIFTS_WINDOW)[i].drift_ms]

\* The sum of the squared distances of the values xs to m.
RECURSIVE SumSqDev(_, _)
SumSqDev(xs, m) ==
    IF xs = <<>> THEN Rat(0)
    ELSE RAdd(RMul(RSub(Rat(Head(xs)), m), RSub(Rat(Head(xs)), m)),
              SumSqDev(Tail(xs), m))

\* m is the mean of xs.
IsMeanOf(m, xs) == RMul(m, Rat(Len(xs))) = Rat(SumSeq(xs))

\* v is the (sample) variance of xs, whose mean is m.
IsVarianceOf(v, xs, m) == RMul(v, Rat(Len(xs) - 1)) = SumSqDev(xs, m)

\* C33: an update_drift that leaves three samples or more sets avg_drift_ms
\* to the mean and drift_variance to the variance of the drift_ms values of
\* the last min(W, |history|) samples; one that leaves fewer keeps both.
C33_WindowStatistics ==
    [][ devices'["d1"].drift_history # devices["d1"].drift_history
          => IF Len(devices'["d1"].drift_history) >= 3
             THEN /\ IsMeanOf(devices'["d1"].avg_drift_ms, WindowDrifts(devices["d1"])')
                  /\ IsVarianceOf(devices'["d1"].drift_variance,
                                  WindowDrifts(devices["d1"])',
                                  devices'["d1"].avg_drift_ms)
             ELSE /\ devices'["d1"].avg_drift_ms = devices["d1"].avg_drift_ms
                  /\ devices'["d1"].drift_variance = devices["d1"].drift_variance ]_vars

(***************************************************************************)
(* A DriftDetector in use: measure_drift and reset_statistics calls on a   *)
(* detector that is new or has a long run of accepted measurements behind  *)
(* it.                                                                     *)
(***************************************************************************)
MaxRunCalls == 3
MaxResets == 1

\* The number of steady calls behind the detector when other calls start.
RunLengths == {0, max_history - 2}

RunDrifts == { Rat(5), Rat(50), Rat(1000), Rat(0 - 1100) }
RunCorrelations == { Norm(7, 10), Norm(1, 2) }

RunInit ==
    /\ BesideControllerIdle
    /\ build = "host"
    /\ InitFrom(Constructed, StartTime)

\* The record of a measure_drift call: measured holds its inputs, evaluated
\* the call before it.
measure_next(fetched, drift_ms, correlation) ==
    /\ detector' = [measure_drift(detector, fetched, drift_ms, correlation)
                      EXCEPT !.measured = << fetched, drift_ms, correlation >>]
    /\ evaluated' = [ fn |-> "measure_drift",
                      measured |-> detector.measured,
                      result |-> detector.result ]
    /\ UNCHANGED << status_vars, buffer_vars, history_vars, client, mic >>
    /\ UNCHANGED << build, now, devices, device_configs, sync_groups, sync_events,
                    last_sync_time, lock, is_connected, published, pc, msg,
                    offset_ms, outcome, applied_offset, sync_log, adjustments >>

\* The run has not left its steady start: every call so far measured 5 ms
\* with correlation 0.9.
Steady == counters.reports = 0 /\ counters.resyncs = 0

\* One measure_drift call of the steady start.
MeasureSteady ==
    /\ Steady
    /\ detector.calls < max_history - 2
    /\ measure_next(TRUE, Rat(5), Norm(9, 10))
    /\ UNCHANGED counters

\* One measure_drift call after the steady start.
MeasureNext(fetched, drift_ms, correlation) ==
    /\ detector.calls \in RunLengths \/ ~Steady
    /\ counters.reports < MaxRunCalls
    /\ measure_next(fetched, drift_ms, correlation)
    /\ counters' = [counters EXCEPT !.reports = @ + 1]

\* One reset_statistics call.
ResetStatistics ==
    /\ detector.calls \in RunLengths \/ ~Steady
    /\ counters.resyncs < MaxResets
    /\ detector' = reset_statistics(detector)
    /\ counters' = [counters EXCEPT !.resyncs = @ + 1]
    /\ UNCHANGED << status_vars, buffer_vars, history_vars, client, mic, evaluated >>
    /\ UNCHANGED << build, now, devices, device_configs, sync_groups, sync_events,
                    last_sync_time, lock, is_connected, published, pc, msg,
                    offset_ms, outcome, applied_offset, sync_log, adjustments >>

RunNext ==
    \/ MeasureSteady
    \/ \E fetched \in BOOLEAN, drift_ms \in RunDrifts,
          correlation \in RunCorrelations :
           MeasureNext(fetched, drift_ms, correlation)
    \/ ResetStatistics

RunSpec == RunInit /\ [][RunNext]_vars

\* A step in which measure_drift got a measurement to validate.
MeasuredStep ==
    /\ detector'.calls = detector.calls + 1
    /\ detector'.measured[1]

\* The measurement passes the three tests, the jump measured from the last
\* accepted drift.
Acceptable(dd, drift_ms, correlation) ==
    /\ RLe(Norm(7, 10), correlation)
    /\ RLe(RAbs(drift_ms), Rat(1000))
    /\ \/ dd.drift_history = << >>
       \/ RLe(RAbs(RSub(drift_ms, dd.last_drift_ms)), Rat(100))

\* C34: a measurement is accepted exactly when its correlation is at least
\* min_correlation, its drift is at most max_drift_ms in size, and the
\* history of accepted drifts is empty or the drift is within 100 ms of the
\* last accepted drift (never of a rejected one).
C34_AcceptedIff ==
    [][ MeasuredStep
          => ( detector'.result = "valid"
                 <=> Acceptable(detector, detector'.measured[2],
                                detector'.measured[3]) ) ]_vars

\* 50 ms was accepted, 1000 ms was then rejected as a jump, and 5 ms, which
\* is near 50 but far from 1000, has just been accepted.
C34_Witness ==
    /\ evaluated = [ fn |-> "measure_drift",
                     measured |-> << TRUE, Rat(1000), Norm(7, 10) >>,
                     result |-> "None" ]
    /\ detector.measured = << TRUE, Rat(5), Norm(7, 10) >>
    /\ detector.result = "valid"
    /\ detector.drift_history = << Rat(50), Rat(5) >>

\* C39: drift_history holds accepted measurements only: every entry is at
\* most max_drift_ms in size, two consecutive entries differ by at most
\* 100 ms, and drift_history and correlation_history have one length, which
\* is at most 100.
C39_HistoryAcceptedOnly ==
    /\ \A i \in 1..Len(detector.drift_history) :
          RLe(RAbs(detector.drift_history[i]), Rat(1000))
    /\ \A i \in 1..(Len(detector.drift_history) - 1) :
          RLe(RAbs(RSub(detector.drift_history[i + 1], detector.drift_history[i])),
              Rat(100))
    /\ Len(detector.drift_history) = Len(detector.correlation_history)
    /\ Len(detector.drift_history) <= 100

\* The history is full and has dropped its oldest entry, and its two latest
\* entries differ.
C39_Witness ==
    /\ Len(detector.drift_history) = 100
    /\ detector.measurement_count > 100
    /\ detector.drift_history[100] # detector.drift_history[99]

(***************************************************************************)
(* AudioBuffer.read of a window that the ring still holds.                 *)
(***************************************************************************)
\* The window of a returned read lies wholly inside the retained frames and
\* its offset is not positive.
WhollyRetained(ret) ==
    /\ offset_samples(ret.offset) <= 0
    /\ WindowFirst(ret) >= RetainedFirst(ret)
    /\ WindowEnd(ret) <= RetainedEnd(ret)

\* The frames of the window, oldest first.
FramesOfWindow(ret) ==
    [ k \in 1..requested_samples(ret.duration) |->
        ret.newest - ret.samples_written + WindowFirst(ret) + k ]

\* C35: a read of N frames at an offset of zero or less whose window lies
\* wholly inside the retained frames returns exactly the N frames that end at
\* position samples_written + offset * sample_rate, in the order they were
\* written, also after the ring has wrapped around.
C35_RetainedWindowRead ==
    (returned.by # "none" /\ WhollyRetained(returned))
        => returned.audio_data = FramesOfWindow(returned)

\* After the ring wrapped around, a read of two frames one frame back from
\* the write position has returned.
C35_Witness ==
    /\ returned.by # "none"
    /\ WhollyRetained(returned)
    /\ returned.samples_written > buffer_size
    /\ requested_samples(returned.duration) = 2
    /\ offset_samples(returned.offset) = -1
    /\ Len(returned.audio_data) = 2

\* C40: after any sequence of write, read and clear operations write_index
\* is samples_written modulo buffer_size and lies in 0..buffer_size - 1, so
\* that the next frame goes directly after the most recently written one.
C40_WriteIndexTracksCount ==
    /\ write_index = samples_written % buffer_size
    /\ 0 <= write_index
    /\ write_index < buffer_size

\* The ring has wrapped around: one frame more than it holds was written and
\* the write position is one past the start.
C40_Witness ==
    /\ write_call.pc = "idle"
    /\ samples_written = buffer_size + 1
    /\ write_index = 1
    /\ returned.by # "none"

(***************************************************************************)
(* What a sync pass leaves alone: force_resync and drift reports on a      *)
(* controller with members in group G and, possibly, in group default.     *)
(***************************************************************************)
MaxFrameCalls == 2

FrameReportCounts == {2, DEFAULT_RECENT_DRIFTS_WINDOW}
FrameProfiles == [n : FrameReportCounts, drift_ms : PassDrifts]

\* d1 and d2 registered in G and d3 in group_name, each sending its reports.
frame_members(b, profiles, group_name) ==
    pass_member(b,
                registered(pass_members_from(b, Constructed, SubSeq(profiles, 1, 2), 1),
                           "d3", [base_latency_ms |-> 50, sync_group |-> group_name]),
                "d3", profiles[3])

\* The members have reported, d3 possibly a string at last, and
\* min_sync_interval_seconds have passed since.
FrameInit ==
    /\ BesideControllerIdle
    /\ build \in Builds
    /\ \E profiles \in [1..3 -> FrameProfiles], group_name \in GroupNames,
          device_id \in {NoDeviceSpoiled, "d3"} :
            InitFrom(spoiled_by(build, frame_members(build, profiles, group_name),
                                device_id),
                     StartTime + MinSyncIntervalTicks)

\* SyncController.force_resync(group_name), the whole call under the lock;
\* evaluated records the call.
FrameResync(group_name) ==
    /\ counters.resyncs + counters.reports < MaxFrameCalls
    /\ \E r \in {force_resync(State.c, sync_groups, last_sync_time, group_name, now)} :
           /\ devices' = r.c.devices
           /\ sync_events' = r.c.sync_events
           /\ sync_log' = r.c.log
           /\ adjustments' = r.c.adjustments
           /\ last_sync_time' = r.last_sync_time
    /\ counters' = [counters EXCEPT !.resyncs = @ + 1]
    /\ evaluated' = [ fn |-> "force_resync", group_name |-> group_name ]
    /\ UNCHANGED << status_vars, buffer_vars, history_vars, detector, client, mic >>
    /\ UNCHANGED << build, now, device_configs, sync_groups, lock, is_connected,
                    published, pc, msg, offset_ms, outcome, applied_offset >>

\* One drift report handled from start to end; evaluated records it.
FrameReport(device_id, drift_ms) ==
    /\ counters.resyncs + counters.reports < MaxFrameCalls
    /\ \E r \in {handle_drift_message(build, State, sync_groups, device_id,
                                      drift_ms, -50, now)} :
           /\ devices' = r.c.devices
           /\ sync_events' = r.c.sync_events
           /\ sync_log' = r.c.log
           /\ adjustments' = r.c.adjustments
           /\ last_sync_time' = r.last_sync_time
           /\ published' = r.published
    /\ counters' = [counters EXCEPT !.reports = @ + 1]
    /\ evaluated' = [ fn |-> "update_device_drift", device_id |-> device_id,
                      drift_ms |-> drift_ms ]
    /\ UNCHANGED << status_vars, buffer_vars, history_vars, detector, client, mic >>
    /\ UNCHANGED << build, now, device_configs, sync_groups, lock, is_connected,
                    pc, msg, offset_ms, outcome, applied_offset >>

FrameNext ==
    \/ \E g \in GroupNames \cup {""} : FrameResync(g)
    \/ \E d \in DeviceIds, v \in PassDrifts : FrameReport(d, v)

FrameSpec == FrameInit /\ [][FrameNext]_vars

\* The device as the pass of this step found it: after update_drift if the
\* step is the device's own drift report.
BeforePass(d) ==
    IF evaluated'.fn = "update_device_drift" /\ evaluated'.device_id = d
    THEN update_drift(build, devices[d], evaluated'.drift_ms, -50, now).dev
    ELSE devices[d]

\* Everything of a device but its two offsets.
BesideOffsets(dev) ==
    << dev.base_latency_ms, dev.drift_history, dev.last_drift_ms,
       dev.last_drift_time, dev.avg_drift_ms, dev.drift_variance,
       dev.connection_quality, dev.is_online, dev.last_seen >>

OffsetsOf(dev) == << dev.current_offset_ms, dev.target_offset_ms >>

\* The groups the call of this step may sync: the named one if it exists,
\* every group otherwise.
SyncedGroups ==
    IF /\ evaluated'.fn = "force_resync"
       /\ evaluated'.group_name # ""
       /\ GroupIndex(sync_groups, evaluated'.group_name) # 0
    THEN {GroupIndex(sync_groups, evaluated'.group_name)}
    ELSE 1..Len(sync_groups)

\* C36: a sync pass, run by update_device_drift or by force_resync, changes
\* nothing of any device but current_offset_ms and target_offset_ms, changes
\* these only for members of a group being synced (for force_resync(g) with
\* an existing g: members of g), and leaves the device map, the groups and
\* the configurations as they are.
C36_PassFrame ==
    [][ counters' # counters
          => /\ DOMAIN devices' = DOMAIN devices
             /\ sync_groups' = sync_groups
             /\ device_configs' = device_configs
             /\ \A d \in DOMAIN devices :
                   /\ BesideOffsets(devices'[d]) = BesideOffsets(BeforePass(d))
                   /\ OffsetsOf(devices'[d]) # OffsetsOf(devices[d])
                        => \E i \in SyncedGroups : InSeq(d, sync_groups[i].ids) ]_vars

\* force_resync('default') has returned while the members of G, none of
\* them in default, are due an adjustment.
C36_Witness ==
    /\ evaluated = [ fn |-> "force_resync", group_name |-> "default" ]
    /\ Len(stable_devices(devices, GroupG)) >= 2
    /\ \E d \in SeqToSet(GroupG) :
          /\ ~InSeq(d, sync_groups[GroupIndex(sync_groups, "default")].ids)
          /\ new_target(d).ok
          /\ needs_adjustment(devices[d], new_target(d).val)

(***************************************************************************)
(* Registrations on a controller whose devices have reported and been      *)
(* adjusted.                                                               *)
(***************************************************************************)
MaxRegisterCalls == 1

NewDeviceId == "d4"
RegisterIds == {"d1", "d3", NewDeviceId}
RegisterLatencies == {50, 80}
RegisterConfigs == [base_latency_ms : RegisterLatencies, sync_group : GroupNames]

\* SyncController.register_device(device_id, config), the whole call under
\* the lock; evaluated records the call and the DeviceState it found.
ReRegister(device_id, config) ==
    /\ counters.registrations < MaxRegisterCalls
    /\ \E r \in {register_device(devices, device_configs, sync_groups, device_id, config)} :
           /\ devices' = r.devices
           /\ device_configs' = r.device_configs
           /\ sync_groups' = r.sync_groups
    /\ counters' = [counters EXCEPT !.registrations = @ + 1]
    /\ evaluated' = [ fn |-> "register_device", device_id |-> device_id,
                      config |-> config,
                      found |-> IF device_id \in DOMAIN devices
                                THEN << devices[device_id] >> ELSE << >> ]
    /\ UNCHANGED << status_vars, buffer_vars, history_vars, detector, client, mic >>
    /\ UNCHANGED << build, now, sync_events, last_sync_time, lock, is_connected,
                    published, pc, msg, offset_ms, outcome, applied_offset,
                    sync_log, adjustments >>

RegisterNext ==
    \/ FrameResync("G")
    \/ \E d \in RegisterIds, config \in RegisterConfigs : ReRegister(d, config)

RegisterSpec == FrameInit /\ [][RegisterNext]_vars

\* C37: when register_device(id, config) returns, device id has an empty
\* drift history, both offsets 0, cleared statistics and base_latency_ms of
\* config, whether or not id was registered before; no other device changes.
C37_RegistrationStartsAfresh ==
    [][ counters'.registrations # counters.registrations
          => /\ evaluated'.device_id \in DOMAIN devices'
             /\ devices'[evaluated'.device_id].drift_history = << >>
             /\ devices'[evaluated'.device_id].current_offset_ms = Rat(0)
             /\ devices'[evaluated'.device_id].target_offset_ms = Rat(0)
             /\ devices'[evaluated'.device_id].base_latency_ms
                    = evaluated'.config.base_latency_ms
             /\ devices'[evaluated'.device_id]
                    = NewDeviceState(evaluated'.config.base_latency_ms)
             /\ \A d \in DOMAIN devices \ {evaluated'.device_id} :
                    devices'[d] = devices[d] ]_vars

\* A device with drift history and an offset already applied has been
\* registered again, with another base latency.
C37_Witness ==
    /\ evaluated.fn = "register_device"
    /\ Len(evaluated.found) = 1
    /\ Len(evaluated.found[1].drift_history) >= 3
    /\ evaluated.found[1].current_offset_ms # Rat(0)
    /\ evaluated.found[1].base_latency_ms # evaluated.config.base_latency_ms
    /\ devices[evaluated.device_id].drift_history = << >>

(***************************************************************************)
(* The receiver's client over start(), stop() and its heartbeat threads    *)
(***************************************************************************)
MaxStarts == 2

\* start() of a client that is not started: as ClientStart, and again after
\* stop() or after a start() that returned False.
HeartbeatStart ==
    /\ client.start_pc \in {"new", "failed"}
    /\ client.connection_attempts < MaxStarts
    /\ client' = [client EXCEPT !.start_pc = "waiting",
                                !.connection_attempts = @ + 1]
    /\ UNCHANGED beside_client

\* stop() up to the join: heartbeat_running = False; the join is skipped
\* while heartbeat_thread is None.
HeartbeatStop ==
    /\ client.start_pc \in {"started", "failed"}
    /\ client' = IF client.heartbeat_thread = 0
                 THEN stop_disconnect([client EXCEPT !.heartbeat_running = FALSE])
                 ELSE [client EXCEPT !.heartbeat_running = FALSE,
                                     !.start_pc = "joining"]
    /\ UNCHANGED beside_client

\* heartbeat_thread.join(timeout=5.0) returns because the thread has ended.
HeartbeatJoined ==
    /\ client.start_pc = "joining"
    /\ client.loops[client.heartbeat_thread] = "ended"
    /\ client' = stop_disconnect(client)
    /\ UNCHANGED beside_client

\* The join returns after 5 s with the thread inside its 30 s sleep.
HeartbeatJoinTimeout ==
    /\ client.start_pc = "joining"
    /\ client.loops[client.heartbeat_thread] = "sleep"
    /\ client' = stop_disconnect(client)
    /\ UNCHANGED beside_client

\* Heartbeat thread i at 'while self.heartbeat_running'.
HeartbeatTest(i) ==
    /\ i \in DOMAIN client.loops
    /\ client.loops[i] = "test"
    /\ client' = [client EXCEPT !.loops[i] = IF client.heartbeat_running
                                             THEN "body" ELSE "ended"]
    /\ UNCHANGED beside_client

\* Heartbeat thread i in the body of the loop: the publish if connected,
\* then time.sleep(heartbeat_interval).
HeartbeatBody(i) ==
    /\ i \in DOMAIN client.loops
    /\ client.loops[i] = "body"
    /\ client.is_connected => client.messages_sent < MaxStarts + MaxPublishes
    /\ client' = [(IF client.is_connected THEN publish(client, "heartbeat") ELSE client)
                    EXCEPT !.loops[i] = "sleep"]
    /\ UNCHANGED beside_client

\* Heartbeat thread i wakes from its sleep.
HeartbeatWake(i) ==
    /\ i \in DOMAIN client.loops
    /\ client.loops[i] = "sleep"
    /\ client' = [client EXCEPT !.loops[i] = "test"]
    /\ UNCHANGED beside_client

HeartbeatNext ==
    \/ HeartbeatStart
    \/ ClientOnConnect
    \/ ClientStartConnected
    \/ ClientStartTimeout
    \/ ClientOnDisconnect
    \/ HeartbeatStop
    \/ HeartbeatJoined
    \/ HeartbeatJoinTimeout
    \/ \E i \in 1..MaxStarts : HeartbeatTest(i)
    \/ \E i \in 1..MaxStarts : HeartbeatBody(i)
    \/ \E i \in 1..MaxStarts : HeartbeatWake(i)

HeartbeatSpec == BusInit /\ [][HeartbeatNext]_vars

\* The heartbeat threads that have been started and have not ended.
HeartbeatLoopsRunning == { i \in DOMAIN client.loops : client.loops[i] # "ended" }

\* C38: at any time at most one heartbeat loop thread of the client is
\* running, under every interleaving of start(), stop() and the threads.
C38_OneHeartbeatLoop == Cardinality(HeartbeatLoopsRunning) <= 1

====
